---- MODULE Spec2Model ----
(***************************************************************************)
(* Printer usage reports: the upload/analyze component (parser, period     *)
(* aggregator, identity reconciliation) as a state machine.                *)
(*                                                                         *)
(* Strings are sequences of one-character strings, so that trim,           *)
(* toLowerCase, includes, replace and parseInt are computed as the code    *)
(* computes them.  A Totals object that the code shares between two        *)
(* records is modelled by a reference (ref) to the place that owns it.     *)
(***************************************************************************)
EXTENDS Integers, Sequences, FiniteSets, TLC

(* ----------------------------- bounds ---------------------------------- *)

\* The number of user events (handler calls) of a run.
MaxEvents == 5

(* ----------------------------- strings --------------------------------- *)

\* An optional value: <<>> when absent (null, undefined), <<v>> when present.
None == <<>>
Some(v) == <<v>>

WhiteSpace == {" "}
Digits == {"0", "1", "2", "3", "4", "5", "6", "7", "8", "9"}

RECURSIVE TrimStart(_)
TrimStart(s) ==
    IF s # <<>> /\ Head(s) \in WhiteSpace THEN TrimStart(Tail(s)) ELSE s

RECURSIVE TrimEnd(_)
TrimEnd(s) ==
    IF s # <<>> /\ s[Len(s)] \in WhiteSpace
    THEN TrimEnd(SubSeq(s, 1, Len(s) - 1))
    ELSE s

\* The name as typed, untrimmed.
NoTrim(s) == s

\* String.prototype.trim
Trim(s) == TrimEnd(TrimStart(s))

LowerChar(c) ==
    CASE c = "A" -> "a"
      [] c = "B" -> "b"
      [] c = "C" -> "c"
      [] c = "E" -> "e"
      [] c = "L" -> "l"
      [] c = "O" -> "o"
      [] c = "R" -> "r"
      [] c = "S" -> "s"
      [] c = "T" -> "t"
      [] c = "U" -> "u"
      [] OTHER -> c

\* String.prototype.toLowerCase
ToLowerCase(s) == [i \in 1..Len(s) |-> LowerChar(s[i])]

\* String.prototype.includes
Includes(s, q) ==
    \E i \in 0..(Len(s) - Len(q)) : SubSeq(s, i + 1, i + Len(q)) = q

DigitValue(c) ==
    CASE c = "0" -> 0 [] c = "1" -> 1 [] c = "2" -> 2 [] c = "3" -> 3
      [] c = "4" -> 4 [] c = "5" -> 5 [] c = "6" -> 6 [] c = "7" -> 7
      [] c = "8" -> 8 [] c = "9" -> 9

\* The value of the longest prefix of digits of s, continuing from acc;
\* parseInt stops at the first character that is not a digit.
RECURSIVE DigitsPrefix(_, _)
DigitsPrefix(s, acc) ==
    IF s # <<>> /\ Head(s) \in Digits
    THEN DigitsPrefix(Tail(s), 10 * acc + DigitValue(Head(s)))
    ELSE acc

\* Number.parseInt(s, 10): None (NaN) when no digit follows the optional sign.
ParseInt10(s) ==
    LET t == TrimStart(s)
        neg == t # <<>> /\ Head(t) = "-"
        body == IF t # <<>> /\ Head(t) \in {"-", "+"} THEN Tail(t) ELSE t
    IN IF body = <<>> \/ Head(body) \notin Digits
       THEN None
       ELSE Some(IF neg THEN 0 - DigitsPrefix(body, 0) ELSE DigitsPrefix(body, 0))

DigitChar(d) ==
    CASE d = 0 -> "0" [] d = 1 -> "1" [] d = 2 -> "2" [] d = 3 -> "3"
      [] d = 4 -> "4" [] d = 5 -> "5" [] d = 6 -> "6" [] d = 7 -> "7"
      [] d = 8 -> "8" [] d = 9 -> "9"

RECURSIVE NatToString(_)
NatToString(n) ==
    IF n < 10 THEN <<DigitChar(n)>>
    ELSE Append(NatToString(n \div 10), DigitChar(n % 10))

\* String(n) of an integer
NumberToString(n) ==
    IF n < 0 THEN <<"-">> \o NatToString(0 - n) ELSE NatToString(n)

\* parseIntSafe: keep digits and '-', parse, NaN becomes 0.
parseIntSafe(v) ==
    LET n == ParseInt10(SelectSeq(v, LAMBDA c : c \in Digits \cup {"-"}))
    IN IF n = None THEN 0 ELSE n[1]

(* ------------------------------ totals --------------------------------- *)

TOTAL_KEYS ==
    {"mono", "color", "blank", "total", "adobePdf", "copy", "msExcel",
     "msPowerPoint", "msWord", "simplex", "duplex", "otherApplication",
     "print"}

ZeroTotals == [k \in TOTAL_KEYS |-> 0]

\* Merging that keeps the counters of the record merged in.
AddTotals_last(a, b) == [k \in TOTAL_KEYS |-> b[k]]

AddTotals(a, b) == [k \in TOTAL_KEYS |-> a[k] + b[k]]

RECURSIVE SumTotals(_)
SumTotals(seq) ==
    IF seq = <<>> THEN ZeroTotals ELSE AddTotals(Head(seq), SumTotals(Tail(seq)))

\* The field-wise sum of printerUsage[*].totals.
SumPrinterUsage(printerUsage) ==
    SumTotals([i \in 1..Len(printerUsage) |-> printerUsage[i].totals])

\* mergeUserData with the source's counters written over the target's.
mergeUserData_overwrite(target, source) ==
    [totals |-> source.totals,
     printerUsage |-> target.printerUsage \o source.printerUsage]

mergeUserData(target, source) ==
    [totals |-> AddTotals(target.totals, source.totals),
     printerUsage |-> target.printerUsage \o source.printerUsage]

(* ---------------------------- aggregator ------------------------------- *)

\* Object.keys(period.users)
UserKeys(period) == DOMAIN period.users

\* computeAggregated(...).allUsers: the set of user keys of all periods
\* (the code sorts it; the order is not used here).
AllUsers(ps) == UNION {UserKeys(ps[i]) : i \in 1..Len(ps)}

\* computeAggregated(...).allPrinters: every ipHostname of every user
AllPrinters(ps) ==
    UNION {UNION {{ps[i].users[u].printerUsage[k].ipHostname :
                       k \in 1..Len(ps[i].users[u].printerUsage)} :
                  u \in UserKeys(ps[i])} :
           i \in 1..Len(ps)}

\* (p) => p.ipHostname === printerUsage.ipHostname &&
\*        p.ipAddress === printerUsage.ipAddress
SameDevice(p, q) == p.ipHostname = q.ipHostname /\ p.ipAddress = q.ipAddress

\* A filter that is applied also when the selection is empty.
FilterActive_always(selectedPrinters) == selectedPrinters # None

\* selectedPrinters && selectedPrinters.size > 0
FilterActive(selectedPrinters) ==
    selectedPrinters # None /\ selectedPrinters[1] # {}

\* relevantPrinterUsage, as the indexes it keeps of userData.printerUsage
RelevantIndexes(userData, selectedPrinters) ==
    IF FilterActive(selectedPrinters)
    THEN SelectSeq([k \in 1..Len(userData.printerUsage) |-> k],
                   LAMBDA k : userData.printerUsage[k].ipHostname
                                  \in selectedPrinters[1])
    ELSE [k \in 1..Len(userData.printerUsage) |-> k]

\* A user is entered into the result even with no relevant printer usage.
SkipUser_never(relevant) == FALSE

\* if (relevantPrinterUsage.length === 0) continue
SkipUser(relevant) == Len(relevant) = 0

\* No entry of the list is taken to be for the device of pu.
FindDevice_none(list, pu) == 0

\* The index of the first entry of the list for the device of pu, 0 if none
\* (Array.prototype.some / find).
FindDevice(list, pu) ==
    IF \E j \in 1..Len(list) : SameDevice(list[j], pu)
    THEN CHOOSE j \in 1..Len(list) :
             /\ SameDevice(list[j], pu)
             /\ \A i \in 1..(j - 1) : ~SameDevice(list[i], pu)
    ELSE 0

\* The Totals object a ref <<period index, user, printerUsage index>> names.
TotalsAt(ps, ref) == ps[ref[1]].users[ref[2]].printerUsage[ref[3]].totals

\* existing.totals.mono += printerUsage.totals.mono; ...: existing.totals is
\* the Totals object of the input record that was pushed with
\* { ...printerUsage }, a copy of the record that shares its totals.
MergeIntoExisting(ps, ref, t) ==
    [ps EXCEPT ![ref[1]].users[ref[2]].printerUsage[ref[3]].totals =
                   AddTotals(@, t)]

\* The body of `for (const printerUsage of relevantPrinterUsage)` for the
\* entry k of user `user` in period pi.  st.agg[user].printerUsage holds, for
\* each device, the ref of the Totals object it shares with the input.
AggPrinterUsage(st, pi, user, k) ==
    LET pu == st.periods[pi].users[user].printerUsage[k]
        userAgg == st.agg[user]
        totals == AddTotals(userAgg.totals, pu.totals)
        j == FindDevice(userAgg.printerUsage, pu)
    IN IF j = 0
       THEN [agg |-> [st.agg EXCEPT ![user] =
                         [totals |-> totals,
                          printerUsage |->
                              Append(userAgg.printerUsage,
                                     [deviceModel |-> pu.deviceModel,
                                      ipHostname |-> pu.ipHostname,
                                      ipAddress |-> pu.ipAddress,
                                      ref |-> <<pi, user, k>>])]],
             periods |-> st.periods]
       ELSE [agg |-> [st.agg EXCEPT ![user].totals = totals],
             periods |-> MergeIntoExisting(st.periods,
                                           userAgg.printerUsage[j].ref,
                                           pu.totals)]

RECURSIVE AggRelevant(_, _, _, _)
AggRelevant(st, pi, user, relevant) ==
    IF relevant = <<>>
    THEN st
    ELSE AggRelevant(AggPrinterUsage(st, pi, user, Head(relevant)),
                     pi, user, Tail(relevant))

\* The body of `for (const [user, userData] of Object.entries(p.users))`
AggUser(st, pi, user) ==
    LET relevant == RelevantIndexes(st.periods[pi].users[user], st.selected)
        entered ==
            IF user \in DOMAIN st.agg
            THEN st.agg
            ELSE st.agg @@ (user :> [totals |-> ZeroTotals,
                                     printerUsage |-> <<>>])
        done == AggRelevant([agg |-> entered, periods |-> st.periods],
                            pi, user, relevant)
    IN IF SkipUser(relevant)
       THEN st
       ELSE [agg |-> done.agg, periods |-> done.periods,
             selected |-> st.selected]

\* The users of one period, one after the other.  A user occurs once in a
\* period and the entries of different users do not touch each other, so the
\* order of Object.entries does not change the result.
RECURSIVE AggUsers(_, _, _)
AggUsers(st, pi, users) ==
    IF users = {}
    THEN st
    ELSE LET user == CHOOSE u \in users : TRUE
         IN AggUsers(AggUser(st, pi, user), pi, users \ {user})

RECURSIVE AggPeriods(_, _)
AggPeriods(st, pi) ==
    IF pi > Len(st.periods)
    THEN st
    ELSE AggPeriods(AggUsers(st, pi, UserKeys(st.periods[pi])), pi + 1)

\* aggregateUsersForSelected(periods, selectedPrinters): .agg is the value
\* returned, each Totals read through its ref when the call returns;
\* .periods is the period collection as the call leaves it.
aggregateUsersForSelected(ps, selectedPrinters) ==
    LET st == AggPeriods([agg |-> <<>>, periods |-> ps,
                          selected |-> selectedPrinters], 1)
    IN [agg |->
            [u \in DOMAIN st.agg |->
                [totals |-> st.agg[u].totals,
                 printerUsage |->
                     [j \in 1..Len(st.agg[u].printerUsage) |->
                         LET e == st.agg[u].printerUsage[j]
                         IN [deviceModel |-> e.deviceModel,
                             ipHostname |-> e.ipHostname,
                             ipAddress |-> e.ipAddress,
                             totals |-> TotalsAt(st.periods, e.ref)]]]],
        periods |-> st.periods]

(* ------------------------------ parser --------------------------------- *)

\* A document is the sequence of its <tr> elements in document order
\* (doc.querySelectorAll('tr')), tables not nested.  A row has its class
\* list (cls), the element it is a child of (parent), the texts of its <th>
\* and <td> cells, and whether an <hr> is inside it.

\* tr.textContent: the texts of the cells, one after the other
RECURSIVE Concat(_)
Concat(seqs) == IF seqs = <<>> THEN <<>> ELSE Head(seqs) \o Concat(Tail(seqs))

TextContent(row) == Concat(row.ths) \o Concat(row.tds)

COLUMN_INDEXES ==
    [mono |-> 7, color |-> 8, blank |-> 9, total |-> 10, adobePdf |-> 13,
     copy |-> 14, msExcel |-> 19, msPowerPoint |-> 20, msWord |-> 21,
     otherApplication |-> 22, print |-> 24, simplex |-> 27, duplex |-> 28]

\* cells[i] ?? dflt, with the 0-based index of the code
CellOr(cells, i, dflt) == IF i + 1 <= Len(cells) THEN cells[i + 1] ELSE dflt

\* Array.from(tr.querySelectorAll('td')).map(td => td.textContent?.trim() ?? '')
CellsOf(row) == [i \in 1..Len(row.tds) |-> Trim(row.tds[i])]

\* The 13 counters of a data row, by fixed column index.
DecodeRow(cells) ==
    LET mono == parseIntSafe(CellOr(cells, COLUMN_INDEXES.mono, <<"0">>))
        color == parseIntSafe(CellOr(cells, COLUMN_INDEXES.color, <<"0">>))
        blank == parseIntSafe(CellOr(cells, COLUMN_INDEXES.blank, <<"0">>))
    IN [k \in TOTAL_KEYS |->
           IF k = "total"
           THEN parseIntSafe(CellOr(cells, COLUMN_INDEXES.total,
                                    NumberToString(mono + color + blank)))
           ELSE parseIntSafe(CellOr(cells, COLUMN_INDEXES[k], <<"0">>))]

\* The counters of the grand-totals row: every missing cell is '0'.
DecodeGrandRow(cells) ==
    [k \in TOTAL_KEYS |-> parseIntSafe(CellOr(cells, COLUMN_INDEXES[k], <<"0">>))]

\* A validation of the three page counters only.
totalsSchemaOk_pagesOnly(t) == \A k \in {"mono", "color", "blank"} : t[k] >= 0

\* totalsSchema.safeParse(...).success: every counter a finite number >= 0
\* (parseIntSafe returns no NaN and the cells of the model are short, so
\* every counter is finite).
totalsSchemaOk(t) == \A k \in TOTAL_KEYS : t[k] >= 0

UnknownUser == <<"U", "n", "k", "n", "o", "w", "n", " ", "U", "s", "e", "r">>

\* gh.parentElement.querySelector('tr:nth-of-type(2)'): the second <tr> of
\* the element the group header is a child of; None if it has only one.
UsernameRow(doc, gh) ==
    LET siblings == SelectSeq([i \in 1..Len(doc) |-> i],
                              LAMBDA i : doc[i].parent = doc[gh].parent)
    IN IF Len(siblings) >= 2 THEN Some(doc[siblings[2]]) ELSE None

\* usernameRow?.querySelector('td')?.textContent?.trim() ?? 'Unknown User'
UsernameOf(doc, gh) ==
    LET r == UsernameRow(doc, gh)
    IN IF r # None /\ r[1].tds # <<>> THEN Trim(r[1].tds[1]) ELSE UnknownUser

\* The row is counted in the printer's entry only, not in the user's totals.
AddRow_printerOnly(userData, cells, t) ==
    LET pu == [ipHostname |-> CellOr(cells, 1, <<>>),
               ipAddress |-> CellOr(cells, 2, <<>>)]
        j == FindDevice(userData.printerUsage, pu)
    IN IF j = 0
       THEN [userData EXCEPT !.printerUsage =
                Append(@, [deviceModel |-> CellOr(cells, 0, <<>>),
                           ipHostname |-> pu.ipHostname,
                           ipAddress |-> pu.ipAddress,
                           totals |-> t])]
       ELSE [userData EXCEPT !.printerUsage[j].totals = AddTotals(@, t)]

\* An accepted row t is added to the entry of its (printerName, ipAddress),
\* created on first sight, and to the user's totals.
AddRow(userData, cells, t) ==
    LET pu == [ipHostname |-> CellOr(cells, 1, <<>>),
               ipAddress |-> CellOr(cells, 2, <<>>)]
        j == FindDevice(userData.printerUsage, pu)
        withPrinter ==
            IF j = 0
            THEN Append(userData.printerUsage,
                        [deviceModel |-> CellOr(cells, 0, <<>>),
                         ipHostname |-> pu.ipHostname,
                         ipAddress |-> pu.ipAddress,
                         totals |-> t])
            ELSE [userData.printerUsage EXCEPT ![j].totals = AddTotals(@, t)]
    IN [totals |-> AddTotals(userData.totals, t),
        printerUsage |-> withPrinter]

\* `for (let i = idx + 1; i < allRows.length; i++)`: the rows after a group
\* header, up to the next group header.
RECURSIVE ScanRows(_, _, _, _)
ScanRows(doc, i, foundColumnHeader, userData) ==
    IF i > Len(doc) \/ "group_hdr" \in doc[i].cls
    THEN userData
    ELSE IF "column_hdr" \in doc[i].cls
    THEN ScanRows(doc, i + 1, TRUE, userData)
    ELSE IF doc[i].hr
    THEN ScanRows(doc, i + 1, foundColumnHeader, userData)
    ELSE IF foundColumnHeader /\ Len(doc[i].tds) > 10
    THEN LET cells == CellsOf(doc[i])
             t == DecodeRow(cells)
         IN IF \/ "totals" \in doc[i].cls
               \/ Includes(ToLowerCase(cells[1]), <<"t", "o", "t", "a", "l">>)
            THEN ScanRows(doc, i + 1, foundColumnHeader, userData)
            ELSE IF ~totalsSchemaOk(t)
            THEN ScanRows(doc, i + 1, foundColumnHeader, userData)
            ELSE ScanRows(doc, i + 1, foundColumnHeader,
                          AddRow(userData, cells, t))
    ELSE ScanRows(doc, i + 1, foundColumnHeader, userData)

\* `for (const gh of groupHeaders)` from row gh on; usersData so far.
RECURSIVE ScanGroups(_, _, _)
ScanGroups(doc, gh, usersData) ==
    IF gh > Len(doc)
    THEN usersData
    ELSE IF \/ "group_hdr" \notin doc[gh].cls
            \/ ~Includes(ToLowerCase(TextContent(doc[gh])),
                         <<"u", "s", "e", "r">>)
    THEN ScanGroups(doc, gh + 1, usersData)
    ELSE LET username == UsernameOf(doc, gh)
             entered ==
                 IF username \in DOMAIN usersData
                 THEN usersData
                 ELSE usersData @@ (username :> [totals |-> ZeroTotals,
                                                 printerUsage |-> <<>>])
         IN ScanGroups(doc, gh + 1,
                       [entered EXCEPT ![username] =
                           ScanRows(doc, gh + 1, FALSE, @)])

\* doc.querySelector('tr.totals'): the first row of class totals, if any
GrandRow(doc) ==
    LET rows == SelectSeq([i \in 1..Len(doc) |-> i],
                          LAMBDA i : "totals" \in doc[i].cls)
    IN IF rows = <<>> THEN None ELSE Some(doc[rows[1]])

\* The totals of one user stand for the sum.
SumUsers_oneUser(usersData, keys) ==
    IF keys = {} THEN ZeroTotals
    ELSE usersData[CHOOSE k \in keys : TRUE].totals

RECURSIVE SumUsers(_, _)
SumUsers(usersData, keys) ==
    IF keys = {}
    THEN ZeroTotals
    ELSE LET u == CHOOSE k \in keys : TRUE
         IN AddTotals(usersData[u].totals, SumUsers(usersData, keys \ {u}))

\* parseReportHtml(html, fileName), html given as its rows
parseReportHtml(doc, fileName) ==
    LET usersData == ScanGroups(doc, 1, <<>>)
        grandRow == GrandRow(doc)
    IN [fileName |-> fileName,
        users |-> usersData,
        grandTotals |->
            IF grandRow # None
            THEN DecodeGrandRow(CellsOf(grandRow[1]))
            ELSE SumUsers(usersData, DOMAIN usersData)]

(* ------------------------- sample documents ---------------------------- *)

UserA == <<"a">>
UserB == <<"b">>

Printer9A == <<"9", "A">>
Printer9B == <<"9", "B">>
Ip1 == <<"i", "1">>
Ip2 == <<"i", "2">>
ModelM == <<"M">>

GroupHdrRow(parent, text) ==
    [cls |-> {"group_hdr"}, parent |-> parent, ths |-> <<text>>,
     tds |-> <<>>, hr |-> FALSE]

UserRow(parent, name) ==
    [cls |-> {}, parent |-> parent, ths |-> <<>>, tds |-> <<name>>,
     hr |-> FALSE]

ColumnHdrRow(parent) ==
    [cls |-> {"column_hdr"}, parent |-> parent,
     ths |-> << <<"M", "o", "n", "o">> >>, tds |-> <<>>, hr |-> FALSE]

\* A usage row of 29 cells: device model, printer name, IP address, and the
\* mono, color and total cells as given; every other counter cell is "0".
DataRow(parent, printer, ip, mono, color, total) ==
    [cls |-> {}, parent |-> parent, ths |-> <<>>, hr |-> FALSE,
     tds |-> [i \in 1..29 |->
                 CASE i = 1 -> ModelM
                   [] i = 2 -> printer
                   [] i = 3 -> ip
                   [] i = 8 -> mono
                   [] i = 9 -> color
                   [] i = 11 -> total
                   [] OTHER -> <<"0">>]]

\* Two user sections, each in a table body of its own; user "a" has two rows
\* for printer 9A and one for 9B, user "b" one row for 9B.
DocTwoUsers ==
    << GroupHdrRow(1, <<"U", "s", "e", "r">>),
       UserRow(1, <<" ", "a", " ">>),
       ColumnHdrRow(1),
       DataRow(1, Printer9A, Ip1, <<"1">>, <<"0">>, <<"1">>),
       DataRow(1, Printer9B, Ip2, <<"0">>, <<"1">>, <<"1">>),
       DataRow(1, Printer9A, Ip1, <<"1">>, <<"1">>, <<"2">>),
       GroupHdrRow(2, <<"U", "s", "e", "r">>),
       UserRow(2, UserB),
       ColumnHdrRow(2),
       DataRow(2, Printer9B, Ip2, <<"2">>, <<"0">>, <<"2">>) >>

\* One user section for "b", with a row for 9A.
DocOneUser ==
    << GroupHdrRow(1, <<"u", "s", "e", "r">>),
       UserRow(1, UserB),
       ColumnHdrRow(1),
       DataRow(1, Printer9A, Ip1, <<"1">>, <<"0">>, <<"1">>) >>

FileTwo == <<"t", ".", "h", "t", "m">>
FileOne == <<"o", "n", "e">>

\* The files a user can drop: readable ones, and one whose text() rejects.
Files ==
    { [name |-> FileTwo, doc |-> Some(DocTwoUsers)],
      [name |-> FileOne, doc |-> Some(DocOneUser)],
      [name |-> FileOne, doc |-> None] }

\* FileList values: no file, one file, two files
FileLists ==
    {<<>>} \cup {<<f>> : f \in Files}
           \cup {<<[name |-> FileTwo, doc |-> Some(DocTwoUsers)],
                   [name |-> FileOne, doc |-> Some(DocOneUser)]>>}

\* A saved report of two periods, opened without its id: user "a" used
\* printer 9A in both periods.
SavedPeriods ==
    << parseReportHtml(<< GroupHdrRow(1, <<"U", "s", "e", "r">>),
                          UserRow(1, UserA),
                          ColumnHdrRow(1),
                          DataRow(1, Printer9A, Ip1, <<"1">>, <<"0">>, <<"1">>) >>,
                       FileOne),
       parseReportHtml(DocTwoUsers, FileTwo) >>

SavedName == <<"s">>

\* The props of the component: none (the upload page) or a saved report.
PropsSet ==
    { None,
      Some([initialPeriods |-> SavedPeriods, initialReportName |-> SavedName,
            initialReportId |-> None]),
      Some([initialPeriods |-> SavedPeriods, initialReportName |-> SavedName,
            initialReportId |-> Some(<<"i", "d">>)]) }

\* What a user types into the rename input and into the search box.
TypedNames == { <<>>, <<" ">>, <<" ", "a">>, <<"b", " ">> }
TypedQueries == { <<>>, <<"A">> }

(* --------------------------- the component ----------------------------- *)

VARIABLES
    props,              \* the props the component was mounted with
    hydratedFromProps,  \* hydratedFromProps.current
    periods,            \* useState<ReportPeriod[]>
    errors,             \* useState<string[]>
    isParsing,
    pending,            \* the file an onFiles call is awaiting, or None
    selectedPrinters,   \* useState<Set<string>>
    selectedRows,       \* useState<Set<string>>
    editingUser,        \* useState<string | null>
    tempUserName,
    userNameMappings,   \* useState<Record<string, string>>
    userSearchQuery,
    originalFileName,
    saveReportName,
    existingReportId,
    selectedUsersAgg,   \* the memoized result of aggregateUsersForSelected
    dirty,              \* the memo's dependencies changed: a render is due
    events,             \* the number of handler calls so far
    beforeUpload,       \* history: the names when the upload in progress
                        \* began (None once its result is rendered)
    lastOp              \* history: the last handler that set periods or
                        \* returned early, "render" once rendered

\* The report store behind the /api/reports routes.
VARIABLES
    useBlob,            \* useBlobStorage(): the blob backend is in use
    stored,             \* the stored envelopes, by <<partition, id>>
    now,                \* the clock: the number of requests served
    response            \* the answer to the last request, or None

\* The parser run on its own.
VARIABLES
    html,               \* the document handed to parseReportHtml, or None
    parsed              \* the ReportPeriod it returned, or None

\* The aggregation functions called on a period collection of their own.
VARIABLES
    loaded,             \* the ReportPeriod[] the functions are called on
    aggregated,         \* what computeAggregated returned, or None
    usersAgg            \* what aggregateUsersForSelected returned, or None

\* derivePeriodLabel called on its own.
VARIABLES
    resolvedLocale,     \* the locale Intl.DateTimeFormat resolves 'en-UK' to
    dateRange,          \* [rangeStart, rangeEnd, fallback], the arguments
    periodLabel         \* the label returned, or None

\* POST /api/reports requests that run at the same time.
VARIABLES
    inFlight            \* where each request is in its handler

\* The desktop shell (electron/main.js), packaged.
VARIABLES
    nextServerPromise,  \* None, or the start the promise belongs to
    nextHttpServer,     \* None, or the server the variable refers to
    starts,             \* where each run of the async start function is
    servers,            \* every http.Server created, with its state
    calls,              \* where each createMainWindow call is
    shutdowns           \* the number of shutdownServer calls so far

componentVars ==
    <<props, hydratedFromProps, periods, errors, isParsing, pending,
      selectedPrinters, selectedRows, editingUser, tempUserName,
      userNameMappings, userSearchQuery, originalFileName, saveReportName,
      existingReportId, selectedUsersAgg, dirty, events, beforeUpload,
      lastOp>>

storeVars == <<useBlob, stored, now, response>>

parserVars == <<html, parsed>>

aggregatorVars == <<loaded, aggregated, usersAgg>>

labelVars == <<resolvedLocale, dateRange, periodLabel>>

raceVars == <<inFlight>>

shellVars ==
    <<nextServerPromise, nextHttpServer, starts, servers, calls, shutdowns>>

otherVars == <<aggregatorVars, labelVars, raceVars, shellVars>>

vars == <<componentVars, storeVars, parserVars, otherVars>>

\* No request has reached the store.
StoreAtRest ==
    /\ useBlob = FALSE
    /\ stored = <<>>
    /\ now = 0
    /\ response = None

\* No document has been handed to the parser on its own.
ParserAtRest ==
    /\ html = None
    /\ parsed = None

\* The aggregation functions have not been called on their own.
AggregatorAtRest ==
    /\ loaded = <<>>
    /\ aggregated = None
    /\ usersAgg = None

\* derivePeriodLabel has not been called on its own.
LabelAtRest ==
    /\ resolvedLocale = "en"
    /\ dateRange = None
    /\ periodLabel = None

\* No POST requests are running at the same time.
RaceAtRest == inFlight = <<>>

\* The desktop shell is not running.
ShellAtRest ==
    /\ nextServerPromise = None
    /\ nextHttpServer = None
    /\ starts = <<>>
    /\ servers = <<>>
    /\ calls = <<>>
    /\ shutdowns = 0

OthersAtRest ==
    /\ AggregatorAtRest
    /\ LabelAtRest
    /\ RaceAtRest
    /\ ShellAtRest

\* file.name.replace(/\.[^/.]+$/, ''): drop the extension, if there is one
RemoveExtension(name) ==
    LET dots == {i \in 1..Len(name) : name[i] = "."}
        last == IF dots = {} THEN 0
                ELSE CHOOSE i \in dots : \A j \in dots : j <= i
    IN IF /\ last > 0
          /\ last < Len(name)
          /\ \A j \in (last + 1)..Len(name) : name[j] # "/"
       THEN SubSeq(name, 1, last - 1)
       ELSE name

\* rehydrateReportPeriods: a copy of every period, its users, their totals
\* and their printerUsage entries; dates are not part of this model.
rehydrateReportPeriods(rawPeriods) ==
    [i \in 1..Len(rawPeriods) |->
        [fileName |-> rawPeriods[i].fileName,
         users |->
             [u \in DOMAIN rawPeriods[i].users |->
                 [totals |-> rawPeriods[i].users[u].totals,
                  printerUsage |->
                      [k \in 1..Len(rawPeriods[i].users[u].printerUsage) |->
                          rawPeriods[i].users[u].printerUsage[k]]]],
         grandTotals |-> rawPeriods[i].grandTotals]]

\* userNameMappings[user] || user
getDisplayName(user) ==
    IF user \in DOMAIN userNameMappings /\ userNameMappings[user] # <<>>
    THEN userNameMappings[user]
    ELSE user

\* The users of the rows on display (filteredUsers, as a set).
filteredUsers ==
    {user \in AllUsers(periods) :
        /\ Includes(ToLowerCase(getDisplayName(user)),
                    ToLowerCase(userSearchQuery))
        /\ user \in DOMAIN selectedUsersAgg}

isViewingSavedReport == existingReportId # None

ComponentInit ==
    /\ props \in PropsSet
    /\ hydratedFromProps = FALSE
    /\ periods = <<>>
    /\ errors = <<>>
    /\ isParsing = FALSE
    /\ pending = None
    /\ selectedPrinters = {}
    /\ selectedRows = {}
    /\ editingUser = None
    /\ tempUserName = <<>>
    /\ userNameMappings = <<>>
    /\ userSearchQuery = <<>>
    /\ originalFileName = <<>>
    /\ saveReportName = IF props = None THEN <<>> ELSE props[1].initialReportName
    /\ existingReportId = IF props = None THEN None ELSE props[1].initialReportId
    /\ selectedUsersAgg = <<>>
    /\ dirty = FALSE
    /\ events = 0
    /\ beforeUpload = None
    /\ lastOp = "mount"

Init ==
    /\ ComponentInit
    /\ StoreAtRest
    /\ ParserAtRest
    /\ OthersAtRest

\* The effect that loads initialPeriods once after mount.
NeedsHydrate ==
    /\ props # None
    /\ Len(props[1].initialPeriods) > 0
    /\ ~hydratedFromProps

Hydrate ==
    /\ NeedsHydrate
    /\ periods' = rehydrateReportPeriods(props[1].initialPeriods)
    /\ originalFileName' = props[1].initialReportName
    /\ saveReportName' =
           IF saveReportName = <<>> THEN props[1].initialReportName
           ELSE saveReportName
    /\ existingReportId' = props[1].initialReportId
    /\ hydratedFromProps' = TRUE
    /\ dirty' = TRUE
    /\ lastOp' = "hydrate"
    /\ UNCHANGED <<props, errors, isParsing, pending, selectedPrinters,
                   selectedRows, editingUser, tempUserName, userNameMappings,
                   userSearchQuery, selectedUsersAgg, events, beforeUpload>>
    /\ UNCHANGED <<storeVars, parserVars, otherVars>>

\* A handler runs when the component is mounted and rendered.
\* and the run has events left.
Idle ==
    /\ ~NeedsHydrate
    /\ ~dirty
    /\ events < MaxEvents
    /\ events' = events + 1
    /\ UNCHANGED <<storeVars, parserVars, otherVars>>

\* The render after periods or selectedPrinters changed: the memo
\* selectedUsersAgg is computed again, on the period objects of the state.
Render ==
    /\ dirty
    /\ LET r == aggregateUsersForSelected(periods, Some(selectedPrinters))
       IN /\ selectedUsersAgg' = r.agg
          /\ periods' = r.periods
    /\ dirty' = FALSE
    /\ beforeUpload' = None
    /\ lastOp' = "render"
    /\ UNCHANGED <<props, hydratedFromProps, errors, isParsing, pending,
                   selectedPrinters, selectedRows, editingUser, tempUserName,
                   userNameMappings, userSearchQuery, originalFileName,
                   saveReportName, existingReportId, events>>
    /\ UNCHANGED <<storeVars, parserVars, otherVars>>

\* onFiles up to `await file.text()`
OnFilesStart(files) ==
    /\ Idle
    /\ ~isViewingSavedReport
    /\ pending = None
    /\ \/ /\ Len(files) = 0
          /\ UNCHANGED <<props, hydratedFromProps, periods, errors, isParsing,
                         pending, selectedPrinters, selectedRows, editingUser,
                         tempUserName, userNameMappings, userSearchQuery,
                         originalFileName, saveReportName, existingReportId,
                         selectedUsersAgg, dirty, beforeUpload, lastOp>>
       \/ /\ Len(files) > 1
          /\ errors' = << [kind |-> "one_file_at_a_time"] >>
          /\ lastOp' = "onFiles_many"
          /\ UNCHANGED <<props, hydratedFromProps, periods, isParsing, pending,
                         selectedPrinters, selectedRows, editingUser,
                         tempUserName, userNameMappings, userSearchQuery,
                         originalFileName, saveReportName, existingReportId,
                         selectedUsersAgg, dirty, beforeUpload>>
       \/ /\ Len(files) = 1
          /\ isParsing' = TRUE
          /\ pending' = Some(files[1])
          /\ beforeUpload' = Some([originalFileName |-> originalFileName,
                                   saveReportName |-> saveReportName,
                                   existingReportId |-> existingReportId])
          /\ originalFileName' = files[1].name
          /\ saveReportName' = RemoveExtension(files[1].name)
          /\ existingReportId' = None
          /\ lastOp' = "onFiles_start"
          /\ UNCHANGED <<props, hydratedFromProps, periods, errors,
                         selectedPrinters, selectedRows, editingUser,
                         tempUserName, userNameMappings, userSearchQuery,
                         selectedUsersAgg, dirty>>

\* A failed upload keeps the periods loaded before it.
ParsedOnFailure_keep(prev) == prev

\* The periods onFiles passes to setPeriods on a failure: `parsed`, to which
\* nothing was pushed.
ParsedOnFailure(prev) == <<>>

\* onFiles from the end of the await: the file was read and parsed, or
\* reading it failed.
OnFilesFinish ==
    /\ Idle
    /\ pending # None
    /\ LET file == pending[1]
       IN IF file.doc # None
          THEN /\ periods' = << parseReportHtml(file.doc[1], file.name) >>
               /\ errors' = <<>>
               /\ lastOp' = "onFiles_parsed"
          ELSE /\ periods' = ParsedOnFailure(periods)
               /\ errors' = << [kind |-> "failed_to_parse",
                                file |-> file.name] >>
               /\ lastOp' = "onFiles_failed"
    /\ isParsing' = FALSE
    /\ pending' = None
    /\ dirty' = TRUE
    /\ UNCHANGED <<props, hydratedFromProps, selectedPrinters, selectedRows,
                   editingUser, tempUserName, userNameMappings,
                   userSearchQuery, originalFileName, saveReportName,
                   existingReportId, selectedUsersAgg, beforeUpload>>

\* The usage card is rendered: {aggregated.periods.length > 0 && ...}
UsageShown == Idle /\ Len(periods) > 0

clearAll ==
    /\ Idle
    /\ ~isViewingSavedReport
    /\ Len(periods) > 0
    /\ periods' = <<>>
    /\ errors' = <<>>
    /\ userSearchQuery' = <<>>
    /\ selectedPrinters' = {}
    /\ selectedRows' = {}
    /\ originalFileName' = <<>>
    /\ saveReportName' = <<>>
    /\ existingReportId' = None
    /\ dirty' = TRUE
    /\ lastOp' = "clearAll"
    /\ UNCHANGED <<props, hydratedFromProps, isParsing, pending, editingUser,
                   tempUserName, userNameMappings, selectedUsersAgg,
                   beforeUpload>>

setUserSearchQuery(q) ==
    /\ UsageShown
    /\ userSearchQuery' = q
    /\ UNCHANGED <<lastOp, props, hydratedFromProps, periods, errors, isParsing,
                   pending, selectedPrinters, selectedRows, editingUser,
                   tempUserName, userNameMappings, originalFileName,
                   saveReportName, existingReportId, selectedUsersAgg, dirty,
                   beforeUpload>>

\* setSelectedPrinters(next) of the three printer-filter handlers: a new Set
\* each time, so the memo is computed again.
SetSelectedPrinters(next, op) ==
    /\ UsageShown
    /\ selectedPrinters' = next
    /\ dirty' = TRUE
    /\ lastOp' = op
    /\ UNCHANGED <<props, hydratedFromProps, periods, errors, isParsing,
                   pending, selectedRows, editingUser, tempUserName,
                   userNameMappings, userSearchQuery, originalFileName,
                   saveReportName, existingReportId, selectedUsersAgg,
                   beforeUpload>>

togglePrinterFilter(printer) ==
    SetSelectedPrinters(IF printer \in selectedPrinters
                        THEN selectedPrinters \ {printer}
                        ELSE selectedPrinters \cup {printer},
                        "togglePrinterFilter")

selectAllPrinters == SetSelectedPrinters(AllPrinters(periods), "selectAllPrinters")

clearPrinterSelection == SetSelectedPrinters({}, "clearPrinterSelection")

SetSelectedRows(next) ==
    /\ UsageShown
    /\ selectedRows' = next
    /\ UNCHANGED <<lastOp, props, hydratedFromProps, periods, errors, isParsing,
                   pending, selectedPrinters, editingUser, tempUserName,
                   userNameMappings, userSearchQuery, originalFileName,
                   saveReportName, existingReportId, selectedUsersAgg, dirty,
                   beforeUpload>>

toggleRowSelection(user) ==
    /\ user \in filteredUsers
    /\ SetSelectedRows(IF user \in selectedRows
                       THEN selectedRows \ {user}
                       ELSE selectedRows \cup {user})

selectAllRows == SetSelectedRows(filteredUsers)

clearRowSelection ==
    /\ selectedRows # {}
    /\ SetSelectedRows({})

SetEditing(user, temp) ==
    /\ editingUser' = user
    /\ tempUserName' = temp
    /\ UNCHANGED <<lastOp, props, hydratedFromProps, periods, errors, isParsing,
                   pending, selectedPrinters, selectedRows, userNameMappings,
                   userSearchQuery, originalFileName, saveReportName,
                   existingReportId, selectedUsersAgg, dirty, beforeUpload>>

startEditingUser(user) ==
    /\ UsageShown
    /\ user \in filteredUsers
    /\ SetEditing(Some(user), getDisplayName(user))

\* The rename input is shown in the row of the user being edited.
EditingShown ==
    /\ UsageShown
    /\ editingUser # None
    /\ editingUser[1] \in filteredUsers

\* onChange of the rename input
setTempUserName(name) ==
    /\ EditingShown
    /\ SetEditing(editingUser, name)

cancelEditingUser ==
    /\ EditingShown
    /\ SetEditing(None, <<>>)

\* The updater of setPeriods in updateUserName, for one period.
RenameInPeriod(period, old, new) ==
    IF old \notin DOMAIN period.users
    THEN period
    ELSE LET existingData == period.users[old]
             keys == (DOMAIN period.users \ {old}) \cup {new}
         IN [period EXCEPT !.users =
                [u \in keys |->
                    IF u = new
                    THEN IF new \in DOMAIN period.users
                         THEN mergeUserData(period.users[new], existingData)
                         ELSE existingData
                    ELSE period.users[u]]]

updateUserName ==
    /\ EditingShown
    /\ editingUser[1] # <<>>
    /\ LET old == editingUser[1]
           trimmed == Trim(tempUserName)
       IN IF trimmed = <<>>
          THEN /\ lastOp' = "updateUserName_empty"
               /\ UNCHANGED <<periods, selectedRows, userNameMappings, dirty>>
          ELSE /\ IF trimmed # old
                  THEN /\ periods' = [i \in 1..Len(periods) |->
                                         RenameInPeriod(periods[i], old, trimmed)]
                       /\ selectedRows' =
                              IF old \in selectedRows
                              THEN (selectedRows \ {old}) \cup {trimmed}
                              ELSE selectedRows
                       /\ dirty' = TRUE
                  ELSE UNCHANGED <<periods, selectedRows, dirty>>
               /\ userNameMappings' =
                      [u \in (DOMAIN userNameMappings \ {old}) \cup {trimmed} |->
                          IF u = trimmed THEN trimmed ELSE userNameMappings[u]]
               /\ lastOp' = "updateUserName"
    /\ editingUser' = None
    /\ tempUserName' = <<>>
    /\ UNCHANGED <<props, hydratedFromProps, errors, isParsing, pending,
                   selectedPrinters, userSearchQuery, originalFileName,
                   saveReportName, existingReportId, selectedUsersAgg,
                   beforeUpload>>

\* A delete that also computes the period's grand totals again.
DeleteInPeriod_recompute(period, users) ==
    LET kept == [u \in DOMAIN period.users \ users |-> period.users[u]]
    IN [period EXCEPT !.users = kept,
                      !.grandTotals = SumUsers(kept, DOMAIN kept)]

\* The updater of setPeriods in deleteSelectedRows, for one period.
DeleteInPeriod(period, users) ==
    [period EXCEPT !.users = [u \in DOMAIN period.users \ users |-> period.users[u]]]

\* The action of the confirmation dialog, opened with rows selected.
deleteSelectedRows ==
    /\ UsageShown
    /\ selectedRows # {}
    /\ periods' = [i \in 1..Len(periods) |->
                      DeleteInPeriod(periods[i], selectedRows)]
    /\ selectedRows' = {}
    /\ dirty' = TRUE
    /\ lastOp' = "deleteSelectedRows"
    /\ UNCHANGED <<props, hydratedFromProps, errors, isParsing, pending,
                   selectedPrinters, editingUser, tempUserName,
                   userNameMappings, userSearchQuery, originalFileName,
                   saveReportName, existingReportId, selectedUsersAgg,
                   beforeUpload>>

Next ==
    \/ Hydrate
    \/ Render
    \/ \E files \in FileLists : OnFilesStart(files)
    \/ OnFilesFinish
    \/ clearAll
    \/ \E q \in TypedQueries : setUserSearchQuery(q)
    \/ \E printer \in AllPrinters(periods) : togglePrinterFilter(printer)
    \/ selectAllPrinters
    \/ clearPrinterSelection
    \/ \E user \in AllUsers(periods) : toggleRowSelection(user)
    \/ selectAllRows
    \/ clearRowSelection
    \/ \E user \in AllUsers(periods) : startEditingUser(user)
    \/ \E name \in TypedNames : setTempUserName(name)
    \/ cancelEditingUser
    \/ updateUserName
    \/ deleteSelectedRows

Spec == Init /\ [][Next]_vars

(* ------------------------------ claims --------------------------------- *)

\* UserData.totals equals the field-wise sum of printerUsage[*].totals
TotalsConsistent(userData) ==
    userData.totals = SumPrinterUsage(userData.printerUsage)

\* A printerUsage list with two entries for one device.
HasDuplicateDevice(printerUsage) ==
    \E j, k \in 1..Len(printerUsage) :
        j < k /\ SameDevice(printerUsage[j], printerUsage[k])

\* C1: a second call of the aggregator on the same period collection and the
\* same printer selection returns what the call before it returned: the
\* result the component holds from its last aggregation run equals the
\* result of calling aggregateUsersForSelected again.
C1_SecondCallSameResult ==
    ~dirty =>
        selectedUsersAgg =
            aggregateUsersForSelected(periods, Some(selectedPrinters)).agg

\* C2: an aggregation run leaves its input alone: the period collection
\* after the call (users maps, UserData.totals, PrinterUsage.totals) equals
\* the period collection before it.
C2_AggregatorLeavesInput == [][Render => periods' = periods]_vars

\* C3: every UserData the parser returns, and every UserData the aggregator
\* returns, has totals equal, counter by counter, to the sum over its
\* printerUsage entries.
C3_OutputTotalsConsistent ==
    /\ lastOp = "onFiles_parsed" =>
           \A i \in 1..Len(periods) : \A u \in UserKeys(periods[i]) :
               TotalsConsistent(periods[i].users[u])
    /\ ~dirty =>
           \A u \in DOMAIN selectedUsersAgg :
               TotalsConsistent(selectedUsersAgg[u])

\* C3 witness: an uploaded document was parsed, a rename merged two users of
\* it, and the aggregator returned a user with several printers, one of them
\* summed from two entries of the input.
C3_Witness ==
    /\ ~dirty
    /\ props = None
    /\ Len(periods) = 1
    /\ \E u \in DOMAIN selectedUsersAgg :
           /\ u \in UserKeys(periods[1])
           /\ Len(selectedUsersAgg[u].printerUsage) >= 2
           /\ HasDuplicateDevice(periods[1].users[u].printerUsage)
           /\ selectedUsersAgg[u].totals["mono"] > 0

\* C4: in every reachable state every UserData of the period collection has
\* totals equal to the field-wise sum of its printerUsage[*].totals.
C4_PeriodTotalsConsistent ==
    \A i \in 1..Len(periods) : \A u \in UserKeys(periods[i]) :
        TotalsConsistent(periods[i].users[u])

\* No printerUsage entry of the user, in any period, is of a selected printer.
NoSelectedPrinterUsage(user) ==
    \A i \in 1..Len(periods) :
        user \in UserKeys(periods[i]) =>
            \A k \in 1..Len(periods[i].users[user].printerUsage) :
                periods[i].users[user].printerUsage[k].ipHostname
                    \notin selectedPrinters

\* The user keys that occur in some period.
UsersOfPeriods == {u \in {UserA, UserB} : \E i \in 1..Len(periods) : u \in DOMAIN periods[i].users}

\* C5: with a non-empty printer selection, a user none of whose
\* printerUsage entries is of a selected printer has no entry in the
\* aggregation result and no row on display, and is still in allUsers.
C5_FilteredUserDisappears ==
    (~dirty /\ selectedPrinters # {}) =>
        \A user \in UsersOfPeriods :
            NoSelectedPrinterUsage(user) =>
                /\ user \notin DOMAIN selectedUsersAgg
                /\ user \notin filteredUsers
                /\ user \in AllUsers(periods)

\* C5 witness: a printer is selected and a user with printer usage, all of
\* it on other printers, is missing from the result.
C5_Witness ==
    /\ ~dirty
    /\ lastOp = "render"
    /\ selectedPrinters # {}
    /\ \E user \in UsersOfPeriods :
           /\ NoSelectedPrinterUsage(user)
           /\ \E i \in 1..Len(periods) :
                  /\ user \in UserKeys(periods[i])
                  /\ Len(periods[i].users[user].printerUsage) > 0
           /\ user \notin DOMAIN selectedUsersAgg
           /\ DOMAIN selectedUsersAgg # {}

\* The sum of the totals of all printerUsage entries of the user, over all
\* periods from period i on.
RECURSIVE SumUserOverPeriods(_, _, _)
SumUserOverPeriods(ps, user, i) ==
    IF i > Len(ps)
    THEN ZeroTotals
    ELSE AddTotals(IF user \in UserKeys(ps[i])
                   THEN SumPrinterUsage(ps[i].users[user].printerUsage)
                   ELSE ZeroTotals,
                   SumUserOverPeriods(ps, user, i + 1))

\* C6: an empty or absent printer selection is no filter: an aggregation
\* run with the empty selection, or with every printer of allPrinters
\* selected, returns what a call with no selection returns and what a call
\* with all printers selected returns, and each user's totals are the sum
\* over all the user's printerUsage entries.
C6_EmptySelectionIsNoFilter ==
    [][(Render /\ selectedPrinters \in {{}, AllPrinters(periods)}) =>
          /\ selectedUsersAgg' = aggregateUsersForSelected(periods, None).agg
          /\ selectedUsersAgg' =
                 aggregateUsersForSelected(periods, Some({})).agg
          /\ selectedUsersAgg' =
                 aggregateUsersForSelected(periods,
                                           Some(AllPrinters(periods))).agg
          /\ \A u \in DOMAIN selectedUsersAgg' :
                 selectedUsersAgg'[u].totals =
                     SumUserOverPeriods(periods, u, 1)]_vars

\* C6 witness: an aggregation run with the empty selection returned two
\* users, one of them with two printers.
C6_Witness ==
    /\ ~dirty
    /\ lastOp = "render"
    /\ selectedPrinters = {}
    /\ Cardinality(DOMAIN selectedUsersAgg) >= 2
    /\ \E u \in DOMAIN selectedUsersAgg :
           Len(selectedUsersAgg[u].printerUsage) >= 2

\* C7: a rename of `old` to a trimmed, non-empty, different identity `new`
\* leaves every period that had `old` with no entry under `old` and one
\* under `new`: with every counter the sum of the two former entries'
\* counters where `new` existed, the former `old` data unchanged where not.
C7_RenameMerges ==
    [][(/\ updateUserName
        /\ \E c \in 1..Len(tempUserName) : tempUserName[c] \notin WhiteSpace
        /\ Trim(tempUserName) # editingUser[1]) =>
          \A i \in 1..Len(periods) :
              LET old == editingUser[1]
                  new == Trim(tempUserName)
                  before == periods[i].users
                  after == periods'[i].users
              IN old \in DOMAIN before =>
                     /\ old \notin DOMAIN after
                     /\ new \in DOMAIN after
                     /\ IF new \in DOMAIN before
                        THEN \A k \in TOTAL_KEYS :
                                 after[new].totals[k] =
                                     before[new].totals[k] + before[old].totals[k]
                        ELSE after[new] = before[old]]_vars

\* C7 witness: a rename has just merged two users that both had mono counts:
\* the entry holds the printerUsage of both, two of them for one device.
C7_Witness ==
    /\ dirty
    /\ lastOp = "updateUserName"
    /\ \E i \in 1..Len(periods) : \E u \in UserKeys(periods[i]) :
           /\ HasDuplicateDevice(periods[i].users[u].printerUsage)
           /\ periods[i].users[u].totals["mono"] >= 2
           /\ Cardinality(UserKeys(periods[i])) = 1

\* C8: a rename to an empty or whitespace-only name changes neither the
\* period collection nor the display-name mapping nor the row selection; it
\* clears the editing state and reports no error.
C8_EmptyRenameIsNoOp ==
    [][(/\ updateUserName
        /\ \A c \in 1..Len(tempUserName) : tempUserName[c] \in WhiteSpace) =>
          /\ periods' = periods
          /\ userNameMappings' = userNameMappings
          /\ selectedRows' = selectedRows
          /\ errors' = errors
          /\ dirty' = dirty
          /\ editingUser' = None
          /\ tempUserName' = <<>>]_vars

\* C8 witness: a rename with a blank name was rejected while rows were
\* selected.
C8_Witness ==
    /\ lastOp = "updateUserName_empty"
    /\ editingUser = None
    /\ selectedRows # {}
    /\ Len(periods) > 0

\* C9: a delete removes the selected users from every period's user map and
\* leaves every other user's data, every period's grandTotals and file name,
\* and the number of periods as they were.
C9_DeleteRemovesOnly ==
    [][deleteSelectedRows =>
          /\ Len(periods') = Len(periods)
          /\ \A i \in 1..Len(periods) :
                 /\ DOMAIN periods'[i].users =
                        DOMAIN periods[i].users \ selectedRows
                 /\ \A u \in DOMAIN periods'[i].users :
                        periods'[i].users[u] = periods[i].users[u]
                 /\ periods'[i].grandTotals = periods[i].grandTotals
                 /\ periods'[i].fileName = periods[i].fileName]_vars

\* C9 witness: a delete has just removed a user from a period that keeps
\* another one, and the period's grandTotals still count the deleted user.
C9_Witness ==
    /\ dirty
    /\ lastOp = "deleteSelectedRows"
    /\ \E i \in 1..Len(periods) :
           /\ UserKeys(periods[i]) # {}
           /\ UserKeys(periods[i]) # {UserA, UserB}
           /\ periods[i].grandTotals #
                  SumUsers(periods[i].users, UserKeys(periods[i]))

\* C10: a failed upload leaves the prior state untouched: the period
\* collection after it equals the one before it, and file name, report name
\* and existing report id are what they were when the upload began.
C10_FailedUploadKeepsState ==
    [][(OnFilesFinish /\ pending[1].doc = None) =>
          /\ periods' = periods
          /\ originalFileName' = beforeUpload[1].originalFileName
          /\ saveReportName' = beforeUpload[1].saveReportName
          /\ existingReportId' = beforeUpload[1].existingReportId]_vars

(* --------------------------- the report store -------------------------- *)

\* The number of requests of a run.
MaxRequests == 2

\* [a-z0-9]
SlugChars ==
    {"a", "b", "c", "d", "e", "f", "g", "h", "i", "j", "k", "l", "m", "n",
     "o", "p", "q", "r", "s", "t", "u", "v", "w", "x", "y", "z"} \cup Digits

\* .replace(/[^a-z0-9]+/g, "-"): every run of other characters becomes "-"
RECURSIVE ReplaceRuns(_, _)
ReplaceRuns(s, inRun) ==
    IF s = <<>> THEN <<>>
    ELSE IF Head(s) \in SlugChars
         THEN <<Head(s)>> \o ReplaceRuns(Tail(s), FALSE)
         ELSE IF inRun THEN ReplaceRuns(Tail(s), TRUE)
              ELSE <<"-">> \o ReplaceRuns(Tail(s), TRUE)

\* .replace(/^-+|-+$/g, "")
RECURSIVE StripDashes(_)
StripDashes(s) ==
    IF s # <<>> /\ Head(s) = "-" THEN StripDashes(Tail(s))
    ELSE IF s # <<>> /\ s[Len(s)] = "-"
         THEN StripDashes(SubSeq(s, 1, Len(s) - 1))
         ELSE s

slugifyUserName(userName) ==
    LET slug == StripDashes(ReplaceRuns(ToLowerCase(Trim(userName)), FALSE))
    IN IF slug = <<>> THEN <<"u", "s", "e", "r">> ELSE slug

IdSeparator == <<"_", "_">>

\* The places where "__" occurs in id.
SeparatorPlaces(id) ==
    {i \in 1..(Len(id) - 1) : SubSeq(id, i, i + 1) = IdSeparator}

\* id.split("__")[0]
SplitFirst(id) ==
    LET i == CHOOSE j \in SeparatorPlaces(id) :
                 \A k \in SeparatorPlaces(id) : j <= k
    IN SubSeq(id, 1, i - 1)

\* Local: id.includes("__") ? id.split("__")[0] : null
getSlugFromId(id) ==
    IF SeparatorPlaces(id) # {} THEN Some(SplitFirst(id)) ELSE None

\* Blob: id.includes("__") ? id.split("__")[0] : ""
BlobSlugOf(id) ==
    IF SeparatorPlaces(id) # {} THEN SplitFirst(id) ELSE <<>>

\* `${userSlug}__${Date.now()}-${Math.random()...}`
buildReportId(userSlug, time, random) ==
    userSlug \o IdSeparator \o NatToString(time) \o <<"-">> \o random

\* The storage root (local), or the empty key segment (blob).
Root == <<>>

\* The place of an envelope: the directory or key segment, and the id that
\* names the file.
PathOf(partition, id) == <<partition, id>>

\* `${userSlug}` in a key, of an envelope that may lack userSlug
SlugSegment(userSlug) ==
    IF userSlug = None THEN <<"u", "n", "d", "e", "f", "i", "n", "e", "d">>
    ELSE userSlug[1]

\* The places that hold a file named `${id}.json`.
PlacesOf(st, id) == {p \in DOMAIN st : p[2] = id}

\* The place the local backend resolves id to, or None.
resolveLocalReportPath(st, id) ==
    LET slug == getSlugFromId(id)
    IN IF slug # None /\ slug[1] # <<>> /\ PathOf(slug[1], id) \in DOMAIN st
       THEN Some(PathOf(slug[1], id))
       ELSE IF PathOf(Root, id) \in DOMAIN st
            THEN Some(PathOf(Root, id))
            ELSE LET found == {p \in PlacesOf(st, id) : p[1] # Root}
                 IN IF found # {} THEN Some(CHOOSE p \in found : TRUE)
                    ELSE None

\* The place the blob backend loads id from, or None: the direct key, else
\* the first listed blob whose url includes `/${id}.json`.
BlobPlaceOf(st, id) ==
    IF PathOf(BlobSlugOf(id), id) \in DOMAIN st
    THEN Some(PathOf(BlobSlugOf(id), id))
    ELSE IF PlacesOf(st, id) # {}
         THEN Some(CHOOSE p \in PlacesOf(st, id) : TRUE)
         ELSE None

\* What a request meets at the store: it works, reads are answered with a
\* status that is not ok (blob), or the calls throw.
StoreFaults == {"none", "not_ok", "throws"}

\* The outcome of a call: ok with a value, or thrown.
Ok(v) == [thrown |-> FALSE, value |-> v]
Thrown == [thrown |-> TRUE, value |-> None]

\* fetchBlobJson: null when !res.ok
fetchBlobJson(st, place, fault) ==
    IF fault = "not_ok" THEN None ELSE Some(st[place])

\* getReportById: the envelope or null, or a thrown error.  (The storage
\* directory exists; with the files unreadable, existsSync still answers.)
getReportById(blob, st, id, fault) ==
    IF fault = "throws" THEN Thrown
    ELSE IF blob
         THEN LET place == BlobPlaceOf(st, id)
              IN IF place = None THEN Ok(None)
                 ELSE Ok(fetchBlobJson(st, place[1], fault))
         ELSE LET path == resolveLocalReportPath(st, id)
              IN IF path = None THEN Ok(None) ELSE Ok(Some(st[path[1]]))

\* The names compared as typed.
NormalizedPair_asTyped(userName, reportName) == <<userName, reportName>>

\* userName.trim().toLowerCase() and reportName.trim().toLowerCase()
NormalizedPair(userName, reportName) ==
    <<ToLowerCase(Trim(userName)), ToLowerCase(Trim(reportName))>>

\* excludeId && data?.id === excludeId
Excluded(report, excludeId) == excludeId # None /\ report.id = excludeId[1]

\* checkReportNameExists: reportNameExistsLocal / reportNameExistsBlob
checkReportNameExists(blob, st, userName, reportName, excludeId, fault) ==
    IF fault = "throws" THEN Thrown
    ELSE Ok(\E place \in DOMAIN st :
               LET report == IF blob THEN fetchBlobJson(st, place, fault)
                             ELSE Some(st[place])
               IN /\ report # None
                  /\ ~Excluded(report[1], excludeId)
                  /\ NormalizedPair(report[1].userName, report[1].reportName)
                         = NormalizedPair(userName, reportName))

\* st with envelope written at place
WriteAt(st, place, envelope) ==
    [p \in DOMAIN st \cup {place} |-> IF p = place THEN envelope ELSE st[p]]

\* st with the file at place removed, if there is one
RemoveAt(st, place) == [p \in DOMAIN st \ {place} |-> st[p]]

\* Math.random().toString(36).substring(2, 8), a sample
RandomSuffix == <<"x">>

\* createReport: saveLocalReport / saveBlobReport
createReport(st, reportName, userName, payload, time) ==
    LET slug == slugifyUserName(userName)
        id == buildReportId(slug, time, RandomSuffix)
        report == [id |-> id, reportName |-> reportName,
                   userName |-> userName, userSlug |-> Some(slug),
                   createdAt |-> time, updatedAt |-> None,
                   periods |-> payload]
    IN [id |-> id, store |-> WriteAt(st, PathOf(slug, id), report)]

\* A merge that also derives userSlug again from the new owner name.
Merged_reslug(existing, update, time) ==
    [existing EXCEPT
        !.reportName = update.reportName,
        !.userName = update.userName,
        !.userSlug = Some(slugifyUserName(update.userName)),
        !.periods = IF update.periods = None THEN @ ELSE update.periods[1],
        !.updatedAt = Some(time)]

\* { ...existing, ...update, updatedAt: new Date().toISOString() }
Merged(existing, update, time) ==
    [existing EXCEPT
        !.reportName = update.reportName,
        !.userName = update.userName,
        !.periods = IF update.periods = None THEN @ ELSE update.periods[1],
        !.updatedAt = Some(time)]

\* overwriteReport: overwriteLocalReport at the resolved path, or
\* overwriteBlobReport at the key built from the merged envelope.  Returns
\* the merged envelope (or null) and the store.
overwriteReport(blob, st, id, update, time, fault) ==
    IF blob
    THEN LET place == BlobPlaceOf(st, id)
             existing == IF place = None THEN None
                         ELSE fetchBlobJson(st, place[1], fault)
         IN IF existing = None THEN [updated |-> None, store |-> st]
            ELSE LET merged == Merged(existing[1], update, time)
                     key == PathOf(SlugSegment(merged.userSlug), merged.id)
                 IN [updated |-> Some(merged),
                     store |-> WriteAt(st, key, merged)]
    ELSE LET path == resolveLocalReportPath(st, id)
         IN IF path = None THEN [updated |-> None, store |-> st]
            ELSE LET merged == Merged(st[path[1]], update, time)
                 IN [updated |-> Some(merged),
                     store |-> WriteAt(st, path[1], merged)]

\* deleteReportById: del of the direct url (blob), unlink of the resolved
\* path (local)
deleteReportById(blob, st, id) ==
    IF blob THEN RemoveAt(st, PathOf(BlobSlugOf(id), id))
    ELSE LET path == resolveLocalReportPath(st, id)
         IN IF path = None THEN st ELSE RemoveAt(st, path[1])

\* Sample owner names and report names of a request body ("" is falsy).
OwnerNames == { <<"a">>, <<" ", "A">>, <<"-">> }
ReportNames == { <<>>, <<"r">>, <<"R", " ">> }

\* Sample periods payloads (the ids of the periods saved), or none.
Payloads == { None, Some(<<"p1", "p2">>) }

Bodies ==
    {[reportName |-> r, userName |-> u, periods |-> p] :
        r \in ReportNames, u \in OwnerNames, p \in Payloads}

\* An id at which nothing is stored.
UnknownId == <<"z">>

\* A report saved under owner "a" whose file was moved to partition "b".
MovedId == <<"a", "_", "_", "0", "-", "x">>
MovedReport ==
    [id |-> MovedId, reportName |-> <<"r">>, userName |-> <<"a">>,
     userSlug |-> Some(<<"a">>), createdAt |-> 0, updatedAt |-> None,
     periods |-> <<"p1">>]

\* A report saved before slugging: a file in the storage root, no userSlug.
LegacyId == <<"7">>
LegacyReport ==
    [id |-> LegacyId, reportName |-> <<"s">>, userName |-> <<"a">>,
     userSlug |-> None, createdAt |-> 0, updatedAt |-> None,
     periods |-> <<"p1">>]

\* The stores a run starts from.
InitialStores(blob) ==
    { <<>>, WriteAt(<<>>, PathOf(<<"b">>, MovedId), MovedReport) }
    \cup (IF blob THEN {}
          ELSE { WriteAt(<<>>, PathOf(Root, LegacyId), LegacyReport) })

\* The ids a request can name.
RequestIds == {p[2] : p \in DOMAIN stored} \cup {UnknownId}

\* The faults a request can meet (file reads have no status).
FaultsOf(blob) == IF blob THEN StoreFaults ELSE StoreFaults \ {"not_ok"}

\* NextResponse.json(..., { status })
Respond(method, status, id, report) ==
    Some([method |-> method, status |-> status, id |-> id,
          report |-> report])

\* A request is served: time passes.
Served ==
    /\ now < MaxRequests
    /\ now' = now + 1
    /\ UNCHANGED <<useBlob, componentVars, parserVars, otherVars>>

MissingFields(body, withPeriods) ==
    \/ body.reportName = <<>>
    \/ body.userName = <<>>
    \/ withPeriods /\ body.periods = None

\* POST /api/reports
POST(body, fault) ==
    /\ Served
    /\ IF MissingFields(body, TRUE)
       THEN /\ response' = Respond("POST", 400, None, None)
            /\ UNCHANGED stored
       ELSE LET exists == checkReportNameExists(useBlob, stored,
                              body.userName, body.reportName, None, fault)
            IN IF exists.thrown
               THEN /\ response' = Respond("POST", 500, None, None)
                    /\ UNCHANGED stored
               ELSE IF exists.value
               THEN /\ response' = Respond("POST", 409, None, None)
                    /\ UNCHANGED stored
               ELSE LET made == createReport(stored, body.reportName,
                                    body.userName, body.periods[1], now)
                    IN /\ response' = Respond("POST", 200, Some(made.id), None)
                       /\ stored' = made.store

\* GET /api/reports/[id]
GET(id, fault) ==
    /\ Served
    /\ UNCHANGED stored
    /\ LET report == getReportById(useBlob, stored, id, fault)
       IN response' =
            IF report.thrown THEN Respond("GET", 500, Some(id), None)
            ELSE IF report.value = None
                 THEN Respond("GET", 404, Some(id), None)
                 ELSE Respond("GET", 200, Some(id), report.value)

\* DELETE /api/reports/[id]
DELETE(id, fault) ==
    /\ Served
    /\ LET report == getReportById(useBlob, stored, id, fault)
       IN IF report.thrown
          THEN /\ response' = Respond("DELETE", 500, Some(id), None)
               /\ UNCHANGED stored
          ELSE IF report.value = None
          THEN /\ response' = Respond("DELETE", 404, Some(id), None)
               /\ UNCHANGED stored
          ELSE /\ response' = Respond("DELETE", 200, Some(id), None)
               /\ stored' = deleteReportById(useBlob, stored, id)

\* PUT /api/reports/[id]
PUT(id, body, fault) ==
    /\ Served
    /\ LET existing == getReportById(useBlob, stored, id, fault)
       IN IF existing.thrown
          THEN /\ response' = Respond("PUT", 500, Some(id), None)
               /\ UNCHANGED stored
          ELSE IF existing.value = None
          THEN /\ response' = Respond("PUT", 404, Some(id), None)
               /\ UNCHANGED stored
          ELSE IF MissingFields(body, TRUE)
          THEN /\ response' = Respond("PUT", 400, Some(id), None)
               /\ UNCHANGED stored
          ELSE LET done == overwriteReport(useBlob, stored, id, body, now,
                                           fault)
               IN /\ response' =
                        IF done.updated = None
                        THEN Respond("PUT", 500, Some(id), None)
                        ELSE Respond("PUT", 200, Some(id), None)
                  /\ stored' = done.store

\* PATCH /api/reports/[id]
PATCH(id, body, fault) ==
    /\ Served
    /\ body.periods = None
    /\ LET existing == getReportById(useBlob, stored, id, fault)
       IN IF existing.thrown
          THEN /\ response' = Respond("PATCH", 500, Some(id), None)
               /\ UNCHANGED stored
          ELSE IF existing.value = None
          THEN /\ response' = Respond("PATCH", 404, Some(id), None)
               /\ UNCHANGED stored
          ELSE IF MissingFields(body, FALSE)
          THEN /\ response' = Respond("PATCH", 400, Some(id), None)
               /\ UNCHANGED stored
          ELSE LET exists == checkReportNameExists(useBlob, stored,
                                 body.userName, body.reportName, Some(id),
                                 fault)
               IN IF exists.thrown
                  THEN /\ response' = Respond("PATCH", 500, Some(id), None)
                       /\ UNCHANGED stored
                  ELSE IF exists.value
                  THEN /\ response' = Respond("PATCH", 409, Some(id), None)
                       /\ UNCHANGED stored
                  ELSE LET done == overwriteReport(useBlob, stored, id, body,
                                                   now, fault)
                       IN /\ response' =
                              IF done.updated = None
                              THEN Respond("PATCH", 500, Some(id), None)
                              ELSE Respond("PATCH", 200, Some(id),
                                           done.updated)
                          /\ stored' = done.store

StoreInit ==
    /\ ComponentInit
    /\ props = None
    /\ ParserAtRest
    /\ OthersAtRest
    /\ useBlob \in BOOLEAN
    /\ stored \in InitialStores(useBlob)
    /\ now = 0
    /\ response = None

StoreNext ==
    \/ \E body \in Bodies, fault \in FaultsOf(useBlob) : POST(body, fault)
    \/ \E id \in RequestIds, fault \in FaultsOf(useBlob) : GET(id, fault)
    \/ \E id \in RequestIds, fault \in FaultsOf(useBlob) : DELETE(id, fault)
    \/ \E id \in RequestIds, body \in Bodies, fault \in FaultsOf(useBlob) :
           PUT(id, body, fault)
    \/ \E id \in RequestIds, body \in Bodies, fault \in FaultsOf(useBlob) :
           PATCH(id, body, fault)

StoreSpec == StoreInit /\ [][StoreNext]_vars

(* ------------------------- claims on the store ------------------------- *)

\* Two envelopes (or an envelope and a request body) name the same owner
\* and report, compared trimmed and without regard to case.
SamePair(a, b) ==
    /\ ToLowerCase(Trim(a.userName)) = ToLowerCase(Trim(b.userName))
    /\ ToLowerCase(Trim(a.reportName)) = ToLowerCase(Trim(b.reportName))

\* The envelope a working store returns for id, or None.
ReportAt(st, id) == getReportById(useBlob, st, id, "none").value

\* The body names a report name, an owner and (where asked) periods.
Complete(body, withPeriods) == ~MissingFields(body, withPeriods)

\* C11: in every reachable state of the store, no two distinct stored
\* reports have the same case-insensitive, trimmed (userName, reportName)
\* pair.
C11_NoDuplicateNames ==
    \A p, q \in DOMAIN stored :
        stored[p].id # stored[q].id => ~SamePair(stored[p], stored[q])

OnId(id, body, fault) ==
    \/ GET(id, fault)
    \/ DELETE(id, fault)
    \/ PUT(id, body, fault)
    \/ PATCH(id, body, fault)

\* C13: read, update and delete of an id at which nothing is stored are
\* answered 404 and change nothing; a request that fails to reach or read
\* the store is answered 500 when the calls throw, and is never answered
\* 404 for an id that is stored; on both backends.
C13_NotFoundIsNotFailure ==
    [][\A id \in RequestIds, body \in Bodies, fault \in FaultsOf(useBlob) :
          OnId(id, body, fault) =>
              /\ (fault = "none" /\ PlacesOf(stored, id) = {})
                    => (response'[1].status = 404 /\ stored' = stored)
              /\ fault = "throws"
                    => (response'[1].status = 500 /\ stored' = stored)
              /\ (fault # "none" /\ PlacesOf(stored, id) # {})
                    => response'[1].status # 404]_vars

\* C14: a report stored in any partition is found by its id (GET answers
\* 200 with it), overwritten in place (PUT answers 200 and rewrites the
\* file where it is, and no other) and deleted (DELETE answers 200 and no
\* file of that id remains), on both backends.
C14_FoundInAnyPartition ==
    [][\A id \in RequestIds, body \in Bodies :
          PlacesOf(stored, id) # {} =>
              /\ GET(id, "none")
                    => /\ response'[1].status = 200
                       /\ \E p \in PlacesOf(stored, id) :
                              response'[1].report = Some(stored[p])
              /\ (PUT(id, body, "none") /\ Complete(body, TRUE))
                    => /\ response'[1].status = 200
                       /\ DOMAIN stored' = DOMAIN stored
                       /\ \A p \in DOMAIN stored :
                              IF p[2] = id
                              THEN stored'[p].periods = body.periods[1]
                              ELSE stored'[p] = stored[p]
              /\ DELETE(id, "none")
                    => /\ response'[1].status = 200
                       /\ PlacesOf(stored', id) = {}
                       /\ \A p \in DOMAIN stored \ PlacesOf(stored, id) :
                              p \in DOMAIN stored' /\ stored'[p] = stored[p]
      ]_vars

\* C15: every stored report that has a userSlug has the slug of its current
\* userName as userSlug.
C15_UserSlugOfUserName ==
    \A p \in DOMAIN stored :
        stored[p].userSlug # None =>
            stored[p].userSlug[1] = slugifyUserName(stored[p].userName)

\* C16: a PATCH that succeeds changes, of the report it names, reportName,
\* userName and updatedAt only (id, createdAt, userSlug and periods are as
\* before) and changes no other report; a report just created has no
\* updatedAt, and a report has one after a PUT or PATCH that succeeded.
C16_RenameChangesNamesOnly ==
    [][response'[1].status = 200 =>
        \A body \in Bodies :
          /\ response'[1].method = "PATCH" =>
                LET id == response'[1].id[1]
                IN PATCH(id, body, "none")
                      => LET before == ReportAt(stored, id)[1]
                             after == ReportAt(stored', id)[1]
                         IN /\ after = [before EXCEPT
                                           !.reportName = body.reportName,
                                           !.userName = body.userName,
                                           !.updatedAt = after.updatedAt]
                            /\ after.updatedAt # None
                            /\ response'[1].report = Some(after)
                            /\ \A p \in DOMAIN stored :
                                   p[2] # id => (/\ p \in DOMAIN stored'
                                                 /\ stored'[p] = stored[p])
          /\ response'[1].method = "PUT" =>
                LET id == response'[1].id[1]
                IN PUT(id, body, "none")
                      => ReportAt(stored', id)[1].updatedAt # None
          /\ response'[1].method = "POST" =>
                (POST(body, "none")
                   => ReportAt(stored', response'[1].id[1])[1].updatedAt
                          = None)
      ]_vars

\* A report created by a POST was renamed to another owner.
C16_Witness ==
    /\ response # None
    /\ response[1].method = "PATCH"
    /\ response[1].status = 200
    /\ response[1].report # None
    /\ response[1].report[1].createdAt = 0
    /\ response[1].report[1].updatedAt = Some(1)
    /\ response[1].report[1].userSlug
           # Some(slugifyUserName(response[1].report[1].userName))
    /\ response[1].report[1].periods = <<"p1", "p2">>
    /\ response[1].report[1].id # MovedId

(* ------------------------- the parser on its own ----------------------- *)

\* The number of rows written after the opening rows of a document.
MaxRows == 2

\* A usage row of 29 cells like DataRow(parent, printer, ip, "1", "0", "1"),
\* with the cell of counter k holding v.
DataRowWith(parent, printer, ip, k, v) ==
    LET base == DataRow(parent, printer, ip, <<"1">>, <<"0">>, <<"1">>)
    IN [base EXCEPT !.tds[COLUMN_INDEXES[k] + 1] = v]

\* <tr class="totals">: the report's own totals, mono 5 of total 5
TotalsRow(parent) ==
    [DataRow(parent, <<>>, <<>>, <<"5">>, <<"0">>, <<"5">>)
        EXCEPT !.cls = {"totals"}]

\* <tr class="totals"> with a negative mono cell
NegativeTotalsRow(parent) ==
    [DataRowWith(parent, <<>>, <<>>, "mono", <<"-", "4">>)
        EXCEPT !.cls = {"totals"}]

\* A row whose first cell reads "Total", without the class.
TotalLabelRow(parent) ==
    [DataRow(parent, <<>>, <<>>, <<"3">>, <<"0">>, <<"3">>)
        EXCEPT !.tds[1] = <<"T", "o", "t", "a", "l">>]

\* <tr><td><hr></td></tr>
SeparatorRow(parent) ==
    [cls |-> {}, parent |-> parent, ths |-> <<>>, tds |-> << <<>> >>,
     hr |-> TRUE]

\* The rows a document can go on with, in table body parent.
RowsIn(parent) ==
    { GroupHdrRow(parent, <<"U", "s", "e", "r">>),
      GroupHdrRow(parent, <<"D", "e", "v", "i", "c", "e">>),
      UserRow(parent, UserA),
      ColumnHdrRow(parent),
      DataRow(parent, Printer9A, Ip1, <<"1">>, <<"0">>, <<"1">>),
      DataRow(parent, Printer9B, Ip2, <<"1">>, <<"2">>, <<>>),
      DataRowWith(parent, Printer9B, Ip2, "mono", <<"-", "1">>),
      DataRowWith(parent, Printer9B, Ip2, "total", <<" ", "-", "2">>),
      DataRowWith(parent, Printer9B, Ip2, "duplex", <<"-", "1">>),
      TotalsRow(parent),
      NegativeTotalsRow(parent),
      TotalLabelRow(parent),
      SeparatorRow(parent) }

\* How a document can open: with nothing, with the head of a user section,
\* or with two complete user sections.
Stems ==
    { <<>>,
      << GroupHdrRow(1, <<"U", "s", "e", "r">>), UserRow(1, UserB),
         ColumnHdrRow(1) >>,
      DocTwoUsers }

IsPrefix(s, t) == Len(s) <= Len(t) /\ SubSeq(t, 1, Len(s)) = s

\* The number of rows of doc after its opening rows.
RowsWritten(doc) ==
    LET lens == {Len(st) : st \in {x \in Stems : IsPrefix(x, doc)}}
    IN Len(doc) - (CHOOSE n \in lens : \A m \in lens : m <= n)

\* The table body of the last row of doc.
LastParent(doc) == IF doc = <<>> THEN 1 ELSE doc[Len(doc)].parent

ParserInit ==
    /\ ComponentInit
    /\ props = None
    /\ StoreAtRest
    /\ OthersAtRest
    /\ html \in {Some(st) : st \in Stems}
    /\ parsed = None

\* The document goes on with one more row, in the table body of the row
\* before it.
WriteRow(row) ==
    /\ parsed = None
    /\ RowsWritten(html[1]) < MaxRows
    /\ html' = Some(Append(html[1], row))
    /\ UNCHANGED <<parsed, componentVars, storeVars, otherVars>>

\* The document goes on with the group header of a section in a table body
\* of its own.
WriteSection ==
    /\ parsed = None
    /\ RowsWritten(html[1]) < MaxRows
    /\ html' = Some(Append(html[1],
                 GroupHdrRow(LastParent(html[1]) + 1, <<"U", "s", "e", "r">>)))
    /\ UNCHANGED <<parsed, componentVars, storeVars, otherVars>>

\* parseReportHtml(html, file.name)
Parse ==
    /\ parsed = None
    /\ parsed' = Some(parseReportHtml(html[1], FileOne))
    /\ UNCHANGED <<html, componentVars, storeVars, otherVars>>

ParserNext ==
    \/ \E row \in RowsIn(LastParent(html[1])) : WriteRow(row)
    \/ WriteSection
    \/ Parse

ParserSpec == ParserInit /\ [][ParserNext]_vars

(* ------------------------ claims on the parser ------------------------- *)

\* The sum of counter k over the users of a parsed period.
RECURSIVE SumOverUsers(_, _, _)
SumOverUsers(users, keys, k) ==
    IF keys = {} THEN 0
    ELSE LET u == CHOOSE x \in keys : TRUE
         IN users[u].totals[k] + SumOverUsers(users, keys \ {u}, k)

HasTotalsRow(doc) == \E i \in 1..Len(doc) : "totals" \in doc[i].cls

HasGroupHeader(doc) == \E i \in 1..Len(doc) : "group_hdr" \in doc[i].cls

\* C17: for a document with no explicit totals row, grandTotals equals,
\* counter by counter, the sum of totals over every user of the period.
C17_GrandTotalsAreUserSum ==
    (parsed # None /\ ~HasTotalsRow(html[1])) =>
        \A k \in TOTAL_KEYS :
            parsed[1].grandTotals[k]
                = SumOverUsers(parsed[1].users, DOMAIN parsed[1].users, k)

\* A parsed document without a totals row, with two users who both printed.
C17_Witness ==
    /\ parsed # None
    /\ ~HasTotalsRow(html[1])
    /\ RowsWritten(html[1]) > 0
    /\ \E u, v \in DOMAIN parsed[1].users :
           /\ u # v
           /\ parsed[1].users[u].totals["mono"] > 0
           /\ parsed[1].users[v].totals["total"] > 2
    /\ parsed[1].grandTotals["mono"] > 4

\* C18: a document with no group headers parses to a period with an empty
\* user map and grandTotals all zero, whatever other rows it contains.
C18_NoGroupHeadersIsEmpty ==
    (parsed # None /\ ~HasGroupHeader(html[1])) =>
        /\ DOMAIN parsed[1].users = {}
        /\ parsed[1].grandTotals = ZeroTotals

\* The text of a cell is a negative number.
IsNegativeNumber(cell) ==
    LET t == Trim(cell)
    IN /\ Len(t) >= 2
       /\ t[1] = "-"
       /\ \A i \in 2..Len(t) : t[i] \in Digits
       /\ \E i \in 2..Len(t) : t[i] # "0"

\* A usage row (more than 10 cells) with a negative counter cell.
IsNegativeRow(row) ==
    /\ Len(row.tds) > 10
    /\ \E k \in TOTAL_KEYS :
           /\ COLUMN_INDEXES[k] + 1 <= Len(row.tds)
           /\ IsNegativeNumber(row.tds[COLUMN_INDEXES[k] + 1])

\* doc with every negative usage row cut down to its first three cells (a
\* row of that length is no usage row).
WithoutNegativeRows(doc) ==
    [i \in 1..Len(doc) |->
        IF IsNegativeRow(doc[i])
        THEN [doc[i] EXCEPT !.tds = SubSeq(@, 1, 3)]
        ELSE doc[i]]

\* C19: a data row with a negative value in a counter column adds nothing
\* to the user's totals or to any PrinterUsage and creates no PrinterUsage
\* entry, and its valid sibling rows are counted in full: the users parsed
\* are those of the document without its negative rows.
C19_NegativeRowDropped ==
    parsed # None =>
        parsed[1].users
            = parseReportHtml(WithoutNegativeRows(html[1]), FileOne).users

\* A section with a row of negative duplex for printer 9B, then a valid row
\* for printer 9A: the user has the entry for 9A alone.
C19_Witness ==
    /\ parsed # None
    /\ Len(html[1]) = 5
    /\ html[1][3] = ColumnHdrRow(1)
    /\ html[1][4] = DataRowWith(1, Printer9B, Ip2, "duplex", <<"-", "1">>)
    /\ html[1][5] = DataRow(1, Printer9A, Ip1, <<"1">>, <<"0">>, <<"1">>)
    /\ UserB \in DOMAIN parsed[1].users
    /\ Len(parsed[1].users[UserB].printerUsage) = 1
    /\ parsed[1].users[UserB].printerUsage[1].ipHostname = Printer9A
    /\ parsed[1].users[UserB].totals["mono"] = 1

\* The usage rows of doc: more than 10 cells, not marked as totals.
UsageRows(doc) ==
    SelectSeq(doc, LAMBDA row :
        /\ Len(row.tds) > 10
        /\ "totals" \notin row.cls
        /\ ~Includes(ToLowerCase(Trim(row.tds[1])),
                     <<"t", "o", "t", "a", "l">>))

\* C20: a retained data row whose total cell (index 10) is the empty
\* string is decoded with total = mono + color + blank: in a document
\* whose only usage row has an empty total cell, every PrinterUsage entry
\* parsed has total = mono + color + blank.
C20_EmptyTotalIsComputed ==
    (/\ parsed # None
     /\ Len(UsageRows(html[1])) = 1
     /\ Trim(UsageRows(html[1])[1].tds[COLUMN_INDEXES.total + 1]) = <<>>)
    => \A u \in DOMAIN parsed[1].users :
           \A j \in 1..Len(parsed[1].users[u].printerUsage) :
               LET t == parsed[1].users[u].printerUsage[j].totals
               IN t["total"] = t["mono"] + t["color"] + t["blank"]

NonNegative(t) == \A k \in TOTAL_KEYS : t[k] >= 0

\* C23: every Totals value the parser produces (each PrinterUsage.totals,
\* each UserData.totals and grandTotals) has all its counters >= 0,
\* whatever the document, negative numbers in data rows or in the totals
\* row included.
C23_TotalsNonNegative ==
    parsed # None =>
        /\ NonNegative(parsed[1].grandTotals)
        /\ \A u \in DOMAIN parsed[1].users :
               /\ NonNegative(parsed[1].users[u].totals)
               /\ \A j \in 1..Len(parsed[1].users[u].printerUsage) :
                      NonNegative(parsed[1].users[u].printerUsage[j].totals)

\* The group header a row belongs to: the last one at or before it, 0 if
\* there is none.
SectionOf(doc, i) ==
    LET hdrs == {g \in 1..i : "group_hdr" \in doc[g].cls}
    IN IF hdrs = {} THEN 0 ELSE CHOOSE g \in hdrs : \A h \in hdrs : h <= g

\* doc with every section in a table body of its own, so that the second
\* row of the body of a group header is the row after that header.
SectionsApart(doc) ==
    [i \in 1..Len(doc) |-> [doc[i] EXCEPT !.parent = SectionOf(doc, i)]]

\* C26: the user identity of a user group header is the text of the first
\* data cell of the second row of that header's own section, so the rows of
\* each section are parsed under the section's own identity, also when
\* several sections share a table body: the users parsed are those of the
\* same document with every section in a table body of its own.
C26_UserOfOwnSection ==
    parsed # None =>
        parsed[1].users = parseReportHtml(SectionsApart(html[1]), FileOne).users

(* ================= the aggregation functions on their own =============== *)

\* The number of periods of a collection handed to the functions.
MaxPeriods == 2

\* A date is the day it falls on, counted from the epoch (getTime() in days).

\* The sort key with no fallback to dateCreated.
SortKey_startOnly(p) == IF p.rangeStart # None THEN p.rangeStart[1] ELSE 0

\* a.rangeStart?.getTime() ?? a.dateCreated?.getTime() ?? 0
SortKey(p) ==
    IF p.rangeStart # None THEN p.rangeStart[1]
    ELSE IF p.dateCreated # None THEN p.dateCreated[1]
    ELSE 0

\* Array.prototype.sort with (a, b) => ad - bd is stable: an element goes
\* behind every element placed before it whose key is not greater.
RECURSIVE InsertPeriod(_, _)
InsertPeriod(sorted, p) ==
    IF sorted = <<>>
    THEN <<p>>
    ELSE IF SortKey(Head(sorted)) <= SortKey(p)
         THEN <<Head(sorted)>> \o InsertPeriod(Tail(sorted), p)
         ELSE <<p>> \o sorted

\* [...periods].sort(...)
RECURSIVE SortPeriods(_, _)
SortPeriods(ps, sorted) ==
    IF ps = <<>>
    THEN sorted
    ELSE SortPeriods(Tail(ps), InsertPeriod(sorted, Head(ps)))

\* The loop over `sorted` that keeps the least rangeStart in overallStart
\* and the greatest rangeEnd in overallEnd.
RECURSIVE OverallLoop(_, _, _)
OverallLoop(sorted, overallStart, overallEnd) ==
    IF sorted = <<>>
    THEN [overallStart |-> overallStart, overallEnd |-> overallEnd]
    ELSE LET p == Head(sorted)
             start == IF /\ p.rangeStart # None
                         /\ \/ overallStart = None
                            \/ p.rangeStart[1] < overallStart[1]
                      THEN p.rangeStart
                      ELSE overallStart
             end == IF /\ p.rangeEnd # None
                       /\ \/ overallEnd = None
                          \/ p.rangeEnd[1] > overallEnd[1]
                    THEN p.rangeEnd
                    ELSE overallEnd
         IN OverallLoop(Tail(sorted), start, end)

computeAggregated(ps) ==
    LET sorted == SortPeriods(ps, <<>>)
        overall == OverallLoop(sorted, None, None)
    IN [periods |-> sorted,
        overallRange |->
            IF overall.overallStart # None /\ overall.overallEnd # None
            THEN Some([start |-> overall.overallStart[1],
                       end |-> overall.overallEnd[1]])
            ELSE None,
        allUsers |-> AllUsers(sorted),
        allPrinters |-> AllPrinters(sorted)]

\* The users of sample periods: two users; one user; and user "a" after
\* "b" was renamed to "a" (two entries for printer 9B).
UsersTwo == parseReportHtml(DocTwoUsers, FileTwo).users
UsersOne == parseReportHtml(DocOneUser, FileOne).users
UsersMerged == (UserA :> mergeUserData(UsersTwo[UserA], UsersTwo[UserB]))

DatedPeriod(id, dateCreated, rangeStart, rangeEnd, users) ==
    [id |-> id, fileName |-> FileOne, dateCreated |-> dateCreated,
     rangeStart |-> rangeStart, rangeEnd |-> rangeEnd, users |-> users,
     grandTotals |-> SumUsers(users, DOMAIN users)]

\* Sample periods: a full range; a start only, on the same day; an end only,
\* created on that day too; no date at all; an earlier full range.
DatedPeriods ==
    { DatedPeriod("p1", Some(5), Some(2), Some(3), UsersTwo),
      DatedPeriod("p2", None, Some(2), None, UsersOne),
      DatedPeriod("p3", Some(2), None, Some(1), UsersMerged),
      DatedPeriod("p4", None, None, None, <<>>),
      DatedPeriod("p5", Some(1), Some(1), Some(1), UsersOne) }

RECURSIVE SeqsUpTo(_, _)
SeqsUpTo(S, n) ==
    IF n = 0
    THEN {<<>>}
    ELSE LET shorter == SeqsUpTo(S, n - 1)
         IN shorter \cup {Append(q, x) : q \in shorter, x \in S}

\* The printer selections the functions are called with.
Selections == {None, Some({}), Some({Printer9A})}

AggregatorInit ==
    /\ ComponentInit
    /\ props = None
    /\ StoreAtRest
    /\ ParserAtRest
    /\ LabelAtRest
    /\ RaceAtRest
    /\ ShellAtRest
    /\ loaded \in SeqsUpTo(DatedPeriods, MaxPeriods)
    /\ aggregated = None
    /\ usersAgg = None

\* const aggregated = computeAggregated(periods)
ComputeAggregated ==
    /\ aggregated = None
    /\ aggregated' = Some(computeAggregated(loaded))
    /\ UNCHANGED <<loaded, usersAgg>>
    /\ UNCHANGED <<componentVars, storeVars, parserVars, labelVars, raceVars,
                   shellVars>>

\* aggregateUsersForSelected(periods, selectedPrinters).  The Totals objects
\* the call writes to belong to the periods, which aggregated.periods holds
\* too.
AggregateUsers(selected) ==
    /\ usersAgg = None
    /\ LET r == aggregateUsersForSelected(loaded, selected)
       IN /\ usersAgg' = Some([selectedPrinters |-> selected, agg |-> r.agg])
          /\ loaded' = r.periods
          /\ aggregated' =
                 IF aggregated = None
                 THEN None
                 ELSE Some([aggregated[1] EXCEPT
                               !.periods = SortPeriods(r.periods, <<>>)])
    /\ UNCHANGED <<componentVars, storeVars, parserVars, labelVars, raceVars,
                   shellVars>>

AggregatorNext ==
    \/ ComputeAggregated
    \/ \E selected \in Selections : AggregateUsers(selected)

AggregatorSpec == AggregatorInit /\ [][AggregatorNext]_vars

(* ------------------- claims about the aggregation ------------------------ *)

\* The key the periods are to be ordered by.
OrderKey(p) ==
    CASE p.rangeStart # None -> p.rangeStart[1]
      [] p.rangeStart = None /\ p.dateCreated # None -> p.dateCreated[1]
      [] OTHER -> 0

\* out holds the elements of in, ascending by key, elements of equal keys in
\* the order they have in `in`.
StablySorted(in, out) ==
    /\ Len(out) = Len(in)
    /\ \E f \in Permutations(1..Len(in)) :
          /\ \A k \in 1..Len(in) : out[k] = in[f[k]]
          /\ \A k \in 1..(Len(in) - 1) :
                /\ OrderKey(out[k]) <= OrderKey(out[k + 1])
                /\ OrderKey(out[k]) = OrderKey(out[k + 1]) => f[k] < f[k + 1]

\* C21: computeAggregated returns the periods it was given in ascending
\* order of rangeStart (else dateCreated, else 0), periods of equal keys in
\* their original order, and leaves the array it was given as it was.
C21_SortedStable ==
    [][(aggregated = None /\ aggregated' # None) =>
          /\ loaded' = loaded
          /\ StablySorted(loaded, aggregated'[1].periods)]_vars

\* A call on two periods of equal keys, one key a dateCreated and the other
\* a rangeStart: they were returned in the order they were given in.
C21_Witness ==
    /\ aggregated # None
    /\ usersAgg = None
    /\ Len(loaded) = 2
    /\ loaded[1].id = "p3"
    /\ loaded[2].id = "p1"
    /\ OrderKey(loaded[1]) = OrderKey(loaded[2])
    /\ aggregated[1].periods = loaded

PresentStarts(ps) ==
    {ps[i].rangeStart[1] : i \in {j \in 1..Len(ps) : ps[j].rangeStart # None}}

PresentEnds(ps) ==
    {ps[i].rangeEnd[1] : i \in {j \in 1..Len(ps) : ps[j].rangeEnd # None}}

HasBothEnds(p) == p.rangeStart # None /\ p.rangeEnd # None

\* C22: overallRange, when present, runs from the least rangeStart present
\* to the greatest rangeEnd present, and it is absent whenever no period of
\* the collection has both a rangeStart and a rangeEnd.
C22_OverallRange ==
    aggregated # None =>
        LET r == aggregated[1].overallRange
        IN /\ r # None =>
                /\ PresentStarts(loaded) # {}
                /\ PresentEnds(loaded) # {}
                /\ \A d \in PresentStarts(loaded) : r[1].start <= d
                /\ r[1].start \in PresentStarts(loaded)
                /\ \A d \in PresentEnds(loaded) : r[1].end >= d
                /\ r[1].end \in PresentEnds(loaded)
           /\ (\A i \in 1..Len(loaded) : ~HasBothEnds(loaded[i])) => r = None

\* The UserData records of a collection.
UserDataIn(ps) ==
    UNION {{ps[i].users[u] : u \in UserKeys(ps[i])} : i \in 1..Len(ps)}

PermuteSeq(seq, f) == [k \in 1..Len(seq) |-> seq[f[k]]]

\* The user maps that differ from users in the order of printerUsage only.
RECURSIVE UserOrders(_, _)
UserOrders(users, keys) ==
    IF keys = {}
    THEN {<<>>}
    ELSE LET u == CHOOSE x \in keys : TRUE
         IN {(u :> [users[u] EXCEPT !.printerUsage = PermuteSeq(@, f)]) @@ r :
                f \in Permutations(1..Len(users[u].printerUsage)),
                r \in UserOrders(users, keys \ {u})}

\* The collections that differ from ps in the order of the printerUsage
\* entries only.
RECURSIVE EntryOrders(_)
EntryOrders(ps) ==
    IF ps = <<>>
    THEN {<<>>}
    ELSE {<<[Head(ps) EXCEPT !.users = us]>> \o rest :
             us \in UserOrders(Head(ps).users, UserKeys(Head(ps))),
             rest \in EntryOrders(Tail(ps))}

\* ps with its periods in another order, or with its printerUsage entries
\* in another order.
Rearranged(ps) ==
    {PermuteSeq(ps, f) : f \in Permutations(1..Len(ps))} \cup EntryOrders(ps)

UserTotals(agg) == [u \in DOMAIN agg |-> agg[u].totals]

\* C24: merging adds the counters field by field, in either order and in
\* either grouping, and the per-user totals the aggregator returns for a
\* period collection it has not been called on before are the same for
\* every order of the periods and of the printerUsage entries.
C24_MergeOrderFree ==
    [][(usersAgg = None /\ usersAgg' # None) =>
          /\ \A a \in UserDataIn(loaded), b \in UserDataIn(loaded) :
                /\ mergeUserData(a, b).totals = mergeUserData(b, a).totals
                /\ \A k \in TOTAL_KEYS :
                      mergeUserData(a, b).totals[k]
                          = a.totals[k] + b.totals[k]
                /\ \A c \in UserDataIn(loaded) :
                      mergeUserData(mergeUserData(a, b), c).totals
                          = mergeUserData(a, mergeUserData(b, c)).totals
          /\ \A q \in Rearranged(loaded) :
                UserTotals(aggregateUsersForSelected(
                               q, usersAgg'[1].selectedPrinters).agg)
                    = UserTotals(usersAgg'[1].agg)]_vars

\* The aggregator was called without a filter on two periods that both have
\* user "a", one of them with two entries for one printer: the totals of
\* "a" are the sum of the two periods' totals.
C24_Witness ==
    /\ usersAgg # None
    /\ usersAgg[1].selectedPrinters = Some({})
    /\ Len(loaded) = 2
    /\ loaded[1].id = "p3"
    /\ loaded[2].id = "p1"
    /\ usersAgg[1].agg[UserA].totals
           = AddTotals(UsersMerged[UserA].totals, UsersTwo[UserA].totals)
    /\ usersAgg[1].agg[UserA].totals["mono"] = 6

(* ======================= the period label on its own ==================== *)

\* A Date passed to derivePeriodLabel is its getFullYear(), its month
\* (1 to 12) and its getDate().
YearsOfDates == {2023, 2024}
MonthsOfDates == {1, 12}
DaysOfDates == {1, 31}

SampleDates ==
    [year : YearsOfDates, month : MonthsOfDates, day : DaysOfDates]

\* The character U+2192 of the label.
Arrow == "->"

UnknownPeriod ==
    <<"U", "n", "k", "n", "o", "w", "n", " ", "P", "e", "r", "i", "o", "d">>

\* The locales a runtime resolves the tag 'en-UK' to: UK is no region of the
\* locale data, so either its alias GB is taken or the region is dropped.
ResolvedLocales == {"en-GB", "en"}

\* month: 'short'
ShortMonth(month) ==
    CASE month = 1 -> <<"J", "a", "n">>
      [] month = 2 -> <<"F", "e", "b">>
      [] month = 3 -> <<"M", "a", "r">>
      [] month = 4 -> <<"A", "p", "r">>
      [] month = 5 -> <<"M", "a", "y">>
      [] month = 6 -> <<"J", "u", "n">>
      [] month = 7 -> <<"J", "u", "l">>
      [] month = 8 -> <<"A", "u", "g">>
      [] month = 9 -> <<"S", "e", "p">>
      [] month = 10 -> <<"O", "c", "t">>
      [] month = 11 -> <<"N", "o", "v">>
      [] month = 12 -> <<"D", "e", "c">>

\* new Intl.DateTimeFormat('en-UK', { month: 'short', day: 'numeric',
\* year }).format(date), year being 'numeric' or undefined
DateTimeFormat(date, withYear) ==
    IF resolvedLocale = "en-GB"
    THEN NatToString(date.day) \o <<" ">> \o ShortMonth(date.month)
             \o (IF withYear THEN <<" ">> \o NatToString(date.year)
                 ELSE <<>>)
    ELSE ShortMonth(date.month) \o <<" ">> \o NatToString(date.day)
             \o (IF withYear THEN <<",", " ">> \o NatToString(date.year)
                 ELSE <<>>)

\* The start is written without its year whatever the year of the end.
SameYear_always(rangeStart, rangeEnd) == TRUE

\* rangeStart.getFullYear() === rangeEnd.getFullYear()
SameYear(rangeStart, rangeEnd) == rangeStart.year = rangeEnd.year

derivePeriodLabel(rangeStart, rangeEnd, fallback) ==
    IF rangeStart # None /\ rangeEnd # None
    THEN LET sameYear == SameYear(rangeStart[1], rangeEnd[1])
             startFmt == DateTimeFormat(rangeStart[1], ~sameYear)
             endFmt == DateTimeFormat(rangeEnd[1], TRUE)
         IN startFmt \o <<" ", Arrow, " ">> \o endFmt
    ELSE IF fallback # None THEN fallback[1] ELSE UnknownPeriod

OptionalDates == {None} \cup {Some(d) : d \in SampleDates}

LabelInit ==
    /\ ComponentInit
    /\ props = None
    /\ StoreAtRest
    /\ ParserAtRest
    /\ AggregatorAtRest
    /\ RaceAtRest
    /\ ShellAtRest
    /\ resolvedLocale \in ResolvedLocales
    /\ dateRange \in {Some([rangeStart |-> a, rangeEnd |-> b, fallback |-> f]) :
                         a \in OptionalDates, b \in OptionalDates,
                         f \in {Some(FileOne), Some(FileTwo)}}
    /\ periodLabel = None

\* const periodLabel = derivePeriodLabel(rangeStart, rangeEnd, fileName)
DeriveLabel ==
    /\ periodLabel = None
    /\ periodLabel' = Some(derivePeriodLabel(dateRange[1].rangeStart,
                                             dateRange[1].rangeEnd,
                                             dateRange[1].fallback))
    /\ UNCHANGED <<resolvedLocale, dateRange>>
    /\ UNCHANGED <<componentVars, storeVars, parserVars, aggregatorVars,
                   raceVars, shellVars>>

LabelNext == DeriveLabel

LabelSpec == LabelInit /\ [][LabelNext]_vars

(* --------------------- claims about the period label -------------------- *)

Jan1 == [year |-> 2024, month |-> 1, day |-> 1]
Jan31 == [year |-> 2024, month |-> 1, day |-> 31]

\* "Jan 1 -> Jan 31, 2024" and "1 Jan -> 31 Jan 2024"
MonthFirstLabel ==
    <<"J", "a", "n", " ", "1", " ", Arrow, " ",
      "J", "a", "n", " ", "3", "1", ",", " ", "2", "0", "2", "4">>

DayFirstLabel ==
    <<"1", " ", "J", "a", "n", " ", Arrow, " ",
      "3", "1", " ", "J", "a", "n", " ", "2", "0", "2", "4">>

MonthAbbreviation(date) ==
    IF date.month = 1 THEN <<"J", "a", "n">> ELSE <<"D", "e", "c">>

\* The two parts of a label "{start} -> {end}", None if it is no such label.
LabelParts(label) ==
    LET at == {i \in 1..Len(label) : label[i] = Arrow}
    IN IF Cardinality(at) = 1
       THEN LET i == CHOOSE j \in at : TRUE
            IN IF /\ i > 2
                  /\ i < Len(label) - 1
                  /\ label[i - 1] = " "
                  /\ label[i + 1] = " "
               THEN Some([start |-> SubSeq(label, 1, i - 2),
                          end |-> SubSeq(label, i + 2, Len(label))])
               ELSE None
       ELSE None

\* text names the day and the month of date, and its year if withYear and
\* no year otherwise.
Names(text, date, withYear) ==
    /\ Includes(text, MonthAbbreviation(date))
    /\ Includes(text, NatToString(date.day))
    /\ Includes(text, NatToString(date.year)) <=> withYear
    /\ \A y \in YearsOfDates \ {date.year} : ~Includes(text, NatToString(y))

\* The label is "{start} -> {end}" when both dates are present, the year
\* left out of the start exactly when both dates are in one year, and the
\* file name otherwise.
LabelOfRange ==
    periodLabel # None =>
        LET in == dateRange[1]
        IN IF in.rangeStart # None /\ in.rangeEnd # None
           THEN /\ LabelParts(periodLabel[1]) # None
                /\ Names(LabelParts(periodLabel[1])[1].start, in.rangeStart[1],
                         in.rangeStart[1].year # in.rangeEnd[1].year)
                /\ Names(LabelParts(periodLabel[1])[1].end, in.rangeEnd[1],
                         TRUE)
           ELSE periodLabel[1] = in.fallback[1]

IsExampleRange ==
    /\ periodLabel # None
    /\ dateRange[1].rangeStart = Some(Jan1)
    /\ dateRange[1].rangeEnd = Some(Jan31)

Survives(pu) == selectedPrinters = {} \/ pu.ipHostname \in selectedPrinters

\* The entries of the period collection of the state that belong to user,
\* pass the filter and are for the device of pu, period after period.
SourceEntries(user, pu) ==
    Concat([i \in 1..Len(periods) |->
               IF user \in UserKeys(periods[i])
               THEN SelectSeq(periods[i].users[user].printerUsage,
                              LAMBDA e : Survives(e) /\ SameDevice(e, pu))
               ELSE <<>>])

\* C27: in the result of an aggregation run no user has two printerUsage
\* entries for one (ipHostname, ipAddress) pair, every pair of a surviving
\* source entry has an entry, and the counters of an entry are the sums of
\* the counters of the surviving source entries of that pair, over all
\* periods and within one period.
C27_DevicesMergedAndSummed ==
    [][(dirty /\ ~dirty') =>
          \A u \in DOMAIN selectedUsersAgg' :
              LET list == selectedUsersAgg'[u].printerUsage
              IN /\ ~HasDuplicateDevice(list)
                 /\ \A j \in 1..Len(list) :
                        /\ SourceEntries(u, list[j]) # <<>>
                        /\ list[j].totals
                               = SumPrinterUsage(SourceEntries(u, list[j]))
                 /\ \A i \in 1..Len(periods) :
                        u \in UserKeys(periods[i]) =>
                            \A k \in 1..Len(periods[i].users[u].printerUsage) :
                                LET e == periods[i].users[u].printerUsage[k]
                                IN Survives(e) =>
                                       \E j \in 1..Len(list) :
                                           SameDevice(list[j], e)]_vars

\* An uploaded report in which a rename left a user with two entries for
\* one device was aggregated: the result has fewer entries for the user than
\* the period has.
C27_Witness ==
    /\ ~dirty
    /\ lastOp = "render"
    /\ props = None
    /\ Len(periods) = 1
    /\ \E u \in DOMAIN selectedUsersAgg :
           /\ u \in UserKeys(periods[1])
           /\ HasDuplicateDevice(periods[1].users[u].printerUsage)
           /\ selectedPrinters = {}
           /\ Len(selectedUsersAgg[u].printerUsage)
                  < Len(periods[1].users[u].printerUsage)
           /\ ~HasDuplicateDevice(selectedUsersAgg[u].printerUsage)

\* C29: an upload of one file sets the period collection to the periods
\* parsed from that file (one period, or none if the file could not be
\* read), whatever was loaded before, so the collection holds at most one
\* period after it; an upload of several files changes the error list only.
C29_UploadReplaces ==
    [][/\ (pending # None /\ pending' = None) =>
              /\ periods' = IF pending[1].doc # None
                            THEN <<parseReportHtml(pending[1].doc[1],
                                                   pending[1].name)>>
                            ELSE <<>>
              /\ Len(periods') <= 1
       /\ (\E files \in FileLists : Len(files) > 1 /\ OnFilesStart(files)) =>
              /\ UNCHANGED <<props, hydratedFromProps, periods, isParsing,
                             pending, selectedPrinters, selectedRows,
                             editingUser, tempUserName, userNameMappings,
                             userSearchQuery, originalFileName,
                             saveReportName, existingReportId,
                             selectedUsersAgg, dirty>>]_vars

\* A saved report of two periods was loaded from the props, and then one
\* file was uploaded: the collection is the one period of that file.
C29_Witness ==
    /\ lastOp = "onFiles_parsed"
    /\ props # None
    /\ hydratedFromProps
    /\ Len(props[1].initialPeriods) = 2
    /\ Len(periods) = 1
    /\ periods[1].fileName = FileTwo

(* ============== create requests that run at the same time =============== *)

\* Two POST /api/reports requests whose handlers are in progress together.
Racers == {1, 2}

RaceInit ==
    /\ ComponentInit
    /\ props = None
    /\ ParserAtRest
    /\ AggregatorAtRest
    /\ LabelAtRest
    /\ ShellAtRest
    /\ useBlob \in BOOLEAN
    /\ stored \in InitialStores(useBlob)
    /\ now = 0
    /\ response = None
    /\ inFlight \in [Racers -> {[pc |-> "received", body |-> b, status |-> 0] :
                                   b \in Bodies}]

\* POST from its start to the return of `await checkReportNameExists(...)`:
\* 400 for a missing field, 409 for a name that exists.
PostCheck(r) ==
    /\ inFlight[r].pc = "received"
    /\ LET body == inFlight[r].body
       IN inFlight' =
            [inFlight EXCEPT ![r] =
                IF MissingFields(body, TRUE)
                THEN [@ EXCEPT !.pc = "done", !.status = 400]
                ELSE IF checkReportNameExists(useBlob, stored, body.userName,
                                              body.reportName, None,
                                              "none").value
                     THEN [@ EXCEPT !.pc = "done", !.status = 409]
                     ELSE [@ EXCEPT !.pc = "checked"]]
    /\ UNCHANGED <<useBlob, stored, now, response>>
    /\ UNCHANGED <<componentVars, parserVars, aggregatorVars, labelVars,
                   shellVars>>

\* POST from `await createReport(...)` to its response
PostCreate(r) ==
    /\ inFlight[r].pc = "checked"
    /\ LET body == inFlight[r].body
           made == createReport(stored, body.reportName, body.userName,
                                body.periods[1], now)
       IN /\ stored' = made.store
          /\ inFlight' = [inFlight EXCEPT ![r] =
                             [@ EXCEPT !.pc = "done", !.status = 200]]
    /\ now' = now + 1
    /\ UNCHANGED <<useBlob, response>>
    /\ UNCHANGED <<componentVars, parserVars, aggregatorVars, labelVars,
                   shellVars>>

RaceNext == \E r \in Racers : PostCheck(r) \/ PostCreate(r)

RaceSpec == RaceInit /\ [][RaceNext]_vars

\* The stored reports with the (userName, reportName) pair of body.
StoredWithPair(body) ==
    {place \in DOMAIN stored : SamePair(stored[place], body)}

\* C28: two create requests for one (userName, reportName) pair that run at
\* the same time do not both succeed, and when both have been answered at
\* most one report with that pair is stored.
C28_OneCreateWins ==
    \A r \in Racers, q \in Racers :
        (/\ r # q
         /\ Complete(inFlight[r].body, TRUE)
         /\ Complete(inFlight[q].body, TRUE)
         /\ SamePair(inFlight[r].body, inFlight[q].body))
        => /\ ~(inFlight[r].status = 200 /\ inFlight[q].status = 200)
           /\ (inFlight[r].pc = "done" /\ inFlight[q].pc = "done") =>
                  Cardinality(StoredWithPair(inFlight[r].body)) <= 1

(* ========================= the desktop shell ============================ *)

\* The number of createMainWindow calls and of shutdownServer calls of a run.
MaxCalls == 3
MaxShutdowns == 2

\* The packaged shell: isDev is false.  A start is one run of the async
\* function of prepareNextServer; its promise is the one with the catch
\* handler.  The port is one port: listen succeeds while no server holds it.

PortFree == \A i \in 1..Len(servers) : servers[i].state # "listening"

\* BrowserWindow.getAllWindows().length === 0
NoWindows == \A c \in 1..Len(calls) : calls[c].pc # "window"

ShellInit ==
    /\ ComponentInit
    /\ props = None
    /\ StoreAtRest
    /\ ParserAtRest
    /\ AggregatorAtRest
    /\ LabelAtRest
    /\ RaceAtRest
    /\ nextServerPromise = None
    /\ nextHttpServer = None
    /\ starts = <<>>
    /\ servers = <<>>
    /\ calls = <<>>
    /\ shutdowns = 0

ShellRest ==
    UNCHANGED <<componentVars, storeVars, parserVars, aggregatorVars,
                labelVars, raceVars>>

\* createMainWindow up to `await prepareNextServer()`: called by bootstrap,
\* and by the 'activate' handler, which bootstrap registers when its own
\* call has returned, while no window is open.  prepareNextServer starts the
\* server if there is no promise and returns the promise.
createMainWindow ==
    /\ Len(calls) < MaxCalls
    /\ \/ calls = <<>>
       \/ /\ calls # <<>>
          /\ calls[1].pc \in {"window", "closed", "failed"}
          /\ NoWindows
    /\ IF nextServerPromise = None
       THEN /\ starts' = Append(starts, [pc |-> "preparing", server |-> 0,
                                         epoch |-> shutdowns])
            /\ nextServerPromise' = Some(Len(starts) + 1)
            /\ calls' = Append(calls, [pc |-> "awaiting",
                                       start |-> Len(starts) + 1])
       ELSE /\ calls' = Append(calls, [pc |-> "awaiting",
                                       start |-> nextServerPromise[1]])
            /\ UNCHANGED <<starts, nextServerPromise>>
    /\ UNCHANGED <<nextHttpServer, servers, shutdowns>>
    /\ ShellRest

\* `await nextApp.prepare()` returns: the server is created, assigned to
\* nextHttpServer and told to listen; it holds the port at once if the port
\* is free; another program may hold the port (free is FALSE).
Prepared(s, free) ==
    /\ starts[s].pc = "preparing"
    /\ servers' = Append(servers,
                         [state |-> IF PortFree /\ free THEN "listening"
                                                        ELSE "failed",
                          epoch |-> starts[s].epoch])
    /\ nextHttpServer' = Some(Len(servers) + 1)
    /\ starts' = [starts EXCEPT ![s].pc = "binding",
                                ![s].server = Len(servers) + 1]
    /\ UNCHANGED <<nextServerPromise, calls, shutdowns>>
    /\ ShellRest

\* `await nextApp.prepare()` throws: the catch handler clears the promise.
PrepareFails(s) ==
    /\ starts[s].pc = "preparing"
    /\ starts' = [starts EXCEPT ![s].pc = "rejected"]
    /\ nextServerPromise' = None
    /\ UNCHANGED <<nextHttpServer, servers, calls, shutdowns>>
    /\ ShellRest

\* The listen callback, or the 'error' event, of the server of a start.  A
\* server closed in between gives neither.
ListenSettled(s) ==
    /\ starts[s].pc = "binding"
    /\ \/ /\ servers[starts[s].server].state = "listening"
          /\ starts' = [starts EXCEPT ![s].pc = "resolved"]
          /\ UNCHANGED nextServerPromise
       \/ /\ servers[starts[s].server].state = "failed"
          /\ starts' = [starts EXCEPT ![s].pc = "rejected"]
          /\ nextServerPromise' = None
    /\ UNCHANGED <<nextHttpServer, servers, calls, shutdowns>>
    /\ ShellRest

\* createMainWindow after the await: the window is created and shown, or
\* the rejection is caught and logged.
WindowOrCatch(c) ==
    /\ calls[c].pc = "awaiting"
    /\ \/ /\ starts[calls[c].start].pc = "resolved"
          /\ calls' = [calls EXCEPT ![c].pc = "window"]
       \/ /\ starts[calls[c].start].pc = "rejected"
          /\ calls' = [calls EXCEPT ![c].pc = "failed"]
    /\ UNCHANGED <<nextServerPromise, nextHttpServer, starts, servers,
                   shutdowns>>
    /\ ShellRest

\* The user closes the window (the application stays, as on macOS).
CloseWindow(c) ==
    /\ calls[c].pc = "window"
    /\ calls' = [calls EXCEPT ![c].pc = "closed"]
    /\ UNCHANGED <<nextServerPromise, nextHttpServer, starts, servers,
                   shutdowns>>
    /\ ShellRest

\* shutdownServer, the 'before-quit' handler.  What is in progress goes on
\* until the process ends, and a quit can be cancelled.
shutdownServer ==
    /\ shutdowns < MaxShutdowns
    /\ shutdowns' = shutdowns + 1
    /\ IF nextHttpServer # None
       THEN /\ servers' = [servers EXCEPT ![nextHttpServer[1]].state =
                                              "closed"]
            /\ nextHttpServer' = None
            /\ nextServerPromise' = None
       ELSE UNCHANGED <<servers, nextHttpServer, nextServerPromise>>
    /\ UNCHANGED <<starts, calls>>
    /\ ShellRest

ShellNext ==
    \/ createMainWindow
    \/ \E s \in 1..Len(starts), free \in BOOLEAN : Prepared(s, free)
    \/ \E s \in 1..Len(starts) : PrepareFails(s)
    \/ \E s \in 1..Len(starts) : ListenSettled(s)
    \/ \E c \in 1..Len(calls) : WindowOrCatch(c)
    \/ \E c \in 1..Len(calls) : CloseWindow(c)
    \/ shutdownServer

ShellSpec == ShellInit /\ [][ShellNext]_vars

\* C30: in the packaged shell at most one server is listening on the port
\* at any time, and once shutdownServer has run no server started before it
\* is listening, a start that was in progress at the shutdown included.
C30_NoServerAfterShutdown ==
    /\ Cardinality({i \in 1..Len(servers) :
                       servers[i].state = "listening"}) <= 1
    /\ \A i \in 1..Len(servers) :
           servers[i].state = "listening" => servers[i].epoch = shutdowns

====
